---- MODULE Spec2Model ----
(***************************************************************************)
(* A model of localstack's SNS listener (sns_listener.py): the topic and   *)
(* subscription registry, the confirmation status map, the filter policy   *)
(* evaluator and the fanout of publish_message.                            *)
(***************************************************************************)
EXTENDS Integers, Sequences, FiniteSets, TLC

\* ------------------------------------------------------------------ bounds

\* How many subscription ARNs the backend hands out in one run.
MaxSubs == 2

\* How many tags one request carries at most.
MaxTags == 3

\* ------------------------------------------------------------ value domains

None == "None"

Topics == {"topic-1", "topic-2"}

\* The endpoints: two ARNs (six colon-separated fields, no scheme), a URL and
\* an address.
QueueArn == "arn:aws:sqs:us-east-1:000000000000:q1"
HttpUrl == "http://localhost:1"
FunctionArn == "arn:aws:lambda:us-east-1:000000000000:function:f1"
EmailAddress == "localstack@yopmail.com"

\* The ARNs the backend generates, in the order it generates them.
ArnTable == <<"sub-1", "sub-2", "sub-3", "sub-4", "sub-5", "sub-6">>

\* Filter policies as the JSON texts a subscription stores.
PolicyAx == "{a: [x]}"
PolicyAxOrY == "{a: [x, y]}"
PolicyAxBy == "{a: [x], b: [y]}"
PolicyPrefixOrFive == "{a: [{prefix: x}, 5]}"
PolicyNumeric == "{a: [{numeric: [>, 0, <=, 100]}]}"
PolicyAnythingBut == "{a: [{anything-but: [x]}]}"

\* Message texts: a plain text, a JSON object with a default entry and a
\* JSON object without one.
MsgPlain == "hello"
MsgJsonDefault == "{default: d, sqs: s}"
MsgJsonNoDefault == "{sqs: s}"
MsgJsonDefaultOnly == "{default: d}"
MsgJsonHttpOnly == "{http: h}"

VARIABLES
  SNS_SUBSCRIPTIONS,    \* topic ARN -> list of subscription dicts
  SUBSCRIPTION_STATUS,  \* subscription ARN -> [TopicArn, Token, Status]
  SNS_TAGS,             \* topic ARN -> list of [Key, Value]
  request,              \* the request handled last
  response,             \* the response it got
  deliveries,           \* the transport invocations it caused, in order
  dead_letters,         \* the dead-letter sink calls it caused, in order
  threads               \* handler thread -> the request it is in and where it is

vars == <<SNS_SUBSCRIPTIONS, SUBSCRIPTION_STATUS, SNS_TAGS, request, response,
          deliveries, dead_letters, threads>>

\* The request handler threads whose steps interleave
Threads == {"thread-1", "thread-2"}

\* A thread that handles no request
Idle ==
  [pc |-> "idle", op |-> None, topic_arn |-> None, endpoint |-> None,
   protocol |-> None, subscription_arn |-> None, pending |-> <<>>, rebuilt |-> <<>>]

\* ------------------------------------------------------------- dictionaries

\* dict.get(key), None when the key is absent
Get(d, k) == IF k \in DOMAIN d THEN d[k] ELSE None

\* d[k] = v on a dict
Put(d, k, v) == [x \in DOMAIN d \cup {k} |-> IF x = k THEN v ELSE d[x]]

\* dict.update(other)
Update(d, other) ==
  [x \in DOMAIN d \cup DOMAIN other |-> IF x \in DOMAIN other THEN other[x] ELSE d[x]]

\* dict.pop(key, None)
Pop(d, k) == [x \in DOMAIN d \ {k} |-> d[x]]

EmptyDict == [x \in {} |-> None]

\* short_uid(): a fresh value, named by the subscription and the call site
short_uid(arn, site) == <<arn, site>>

\* --------------------------------------------------------- filter policies

\* Attribute values and condition operands: a number (a Python float or int)
\* or a string, held as a sequence of characters.
Num(n) == [num |-> TRUE, v |-> n]
Str(chars) == [num |-> FALSE, v |-> chars]

\* Python's == on two such values
PyEq(a, b) == a.num = b.num /\ a.v = b.v

\* A condition that is not a dict
Bare(value) == [isdict |-> FALSE, value |-> value]
\* A condition that is a dict, such as {'numeric': ['>', 0]}
Cond(d) == [isdict |-> TRUE, dict |-> d]

\* The numeric conditions of this model's policies, flat lists of
\* (operator, operand) pairs: one pair, or two pairs such as
\* ['>', 0, '<=', 100]
NumericOperators == {"=", ">", "<", ">=", "<="}
NumericOperands == {0, 5, 100}
NumericConditions ==
  {<<o, n>> : o \in NumericOperators, n \in NumericOperands}
  \cup {<<o, 0, p, 100>> : o \in NumericOperators, p \in NumericOperators}

\* The FilterPolicy text {"a": [{"numeric": conditions}]}
NumericText(conditions) == "{a: [{numeric: " \o ToString(conditions) \o "}]}"

\* One entry of a parsed policy
Criteria(name, conditions) == [name |-> name, conditions |-> conditions]

\* json.loads of a stored FilterPolicy text: the entries of the object, in
\* the order a loop over the dict visits them
json_loads_policy(text) ==
  CASE text = "{}" -> <<>>
    [] text = PolicyAx -> <<Criteria("a", <<Bare(Str(<<"x">>))>>)>>
    [] text = PolicyAxOrY ->
         <<Criteria("a", <<Bare(Str(<<"x">>)), Bare(Str(<<"y">>))>>)>>
    [] text = PolicyAxBy ->
         <<Criteria("a", <<Bare(Str(<<"x">>))>>), Criteria("b", <<Bare(Str(<<"y">>))>>)>>
    [] text = PolicyPrefixOrFive ->
         <<Criteria("a", <<Cond([k \in {"prefix"} |-> <<"x">>]), Bare(Num(5))>>)>>
    [] text = PolicyNumeric ->
         <<Criteria("a", <<Cond([k \in {"numeric"} |-> <<">", 0, "<=", 100>>])>>)>>
    [] text = PolicyAnythingBut ->
         <<Criteria("a", <<Cond([k \in {"anything-but"} |-> <<Str(<<"x">>)>>])>>)>>
    [] \E c \in NumericConditions : text = NumericText(c) ->
         <<Criteria("a", <<Cond([k \in {"numeric"} |->
             CHOOSE c \in NumericConditions : text = NumericText(c)])>>)>>
    [] OTHER -> <<>>

\* float(x) succeeds
is_number(x) == x.num

RECURSIVE evaluate_numeric_pairs(_, _, _)
\* evaluate_numeric_condition looking at its first pair only
evaluate_numeric_pairs_first_only(conditions, value, i) ==
  IF i > Len(conditions) THEN TRUE
  ELSE LET operator == conditions[i]
           operand == conditions[i + 1]
       IN  IF operator = "=" /\ value.v # operand THEN FALSE
           ELSE IF operator = ">" /\ value.v <= operand THEN FALSE
           ELSE IF operator = "<" /\ value.v >= operand THEN FALSE
           ELSE IF operator = ">=" /\ value.v < operand THEN FALSE
           ELSE IF operator = "<=" /\ value.v > operand THEN FALSE
           ELSE TRUE

evaluate_numeric_pairs(conditions, value, i) ==
  IF i > Len(conditions) THEN TRUE
  ELSE LET operator == conditions[i]
           operand == conditions[i + 1]
       IN  IF operator = "=" /\ value.v # operand THEN FALSE
           ELSE IF operator = ">" /\ value.v <= operand THEN FALSE
           ELSE IF operator = "<" /\ value.v >= operand THEN FALSE
           ELSE IF operator = ">=" /\ value.v < operand THEN FALSE
           ELSE IF operator = "<=" /\ value.v > operand THEN FALSE
           ELSE evaluate_numeric_pairs(conditions, value, i + 2)

evaluate_numeric_condition(conditions, value) ==
  IF ~is_number(value) THEN FALSE
  ELSE evaluate_numeric_pairs(conditions, value, 1)

\* str.startswith
startswith(chars, prefix) ==
  Len(prefix) <= Len(chars) /\ SubSeq(chars, 1, Len(prefix)) = prefix

\* condition.get(key) is truthy
Truthy(d, key) == key \in DOMAIN d /\ Len(d[key]) > 0

\* evaluate_condition raises: value.startswith of a float (AttributeError)
condition_raises(value, condition) ==
  /\ condition.isdict
  /\ ~Truthy(condition.dict, "anything-but")
  /\ Truthy(condition.dict, "prefix")
  /\ value.num

\* What evaluate_condition returns when it does not raise
evaluate_condition(value, condition) ==
  IF ~condition.isdict THEN PyEq(value, condition.value)
  ELSE IF Truthy(condition.dict, "anything-but")
    THEN ~\E j \in 1..Len(condition.dict["anything-but"]) :
            PyEq(value, condition.dict["anything-but"][j])
  ELSE IF Truthy(condition.dict, "prefix")
    THEN startswith(value.v, condition.dict["prefix"])
  ELSE IF Truthy(condition.dict, "numeric")
    THEN evaluate_numeric_condition(condition.dict["numeric"], value)
  ELSE FALSE

\* ast.literal_eval of the text of a String.Array attribute: the text is held
\* as the sequence of its elements, each one character long
literal_eval(value) == [i \in 1..Len(value.v) |-> Str(<<value.v[i]>>)]

\* The calls of evaluate_condition, in the order of the loops
trials(conditions, attribute) ==
  LET values == IF attribute.Type = "String.Array" THEN literal_eval(attribute.Value)
                ELSE <<attribute.Value>>
      n == Len(conditions)
  IN  [x \in 1..(Len(values) * n) |->
         [value |-> values[((x - 1) \div n) + 1],
          condition |-> conditions[((x - 1) % n) + 1]]]

\* [raised, result]: the loops return True at the first call that returns
\* True, and an exception of a call before it leaves them
evaluate_filter_policy_conditions(conditions, attribute) ==
  LET calls == trials(conditions, attribute)
      stops == {x \in 1..Len(calls) :
                  \/ condition_raises(calls[x].value, calls[x].condition)
                  \/ evaluate_condition(calls[x].value, calls[x].condition)}
  IN  IF stops = {} THEN [raised |-> FALSE, result |-> FALSE]
      ELSE LET x == CHOOSE y \in stops : \A z \in stops : y <= z
           IN  IF condition_raises(calls[x].value, calls[x].condition)
               THEN [raised |-> TRUE, result |-> FALSE]
               ELSE [raised |-> FALSE, result |-> TRUE]

RECURSIVE check_filter_policy_from(_, _, _)
check_filter_policy_from(filter_policy, message_attributes, i) ==
  IF i > Len(filter_policy) THEN [raised |-> FALSE, result |-> TRUE]
  ELSE LET criteria == filter_policy[i].name
           conditions == filter_policy[i].conditions
       IN  IF criteria \notin DOMAIN message_attributes
           THEN [raised |-> FALSE, result |-> FALSE]
           ELSE LET evaluated == evaluate_filter_policy_conditions(
                                   conditions, message_attributes[criteria])
                IN  IF evaluated.raised \/ ~evaluated.result THEN evaluated
                    ELSE check_filter_policy_from(filter_policy, message_attributes, i + 1)

\* [raised, result]
check_filter_policy(filter_policy, message_attributes) ==
  IF Len(filter_policy) = 0 THEN [raised |-> FALSE, result |-> TRUE]
  ELSE check_filter_policy_from(filter_policy, message_attributes, 1)

\* ------------------------------------------------------ request payloads

\* The attribute sets a publish request of this model carries:
\* MessageAttributes.entry.N.{Name, Value.DataType, Value.StringValue}
NoAttributes == <<>>
AttrAx == <<[Name |-> "a", DataType |-> "String", StringValue |-> <<"x">>]>>
AttrAy == <<[Name |-> "a", DataType |-> "String", StringValue |-> <<"y">>]>>
AttrAxy == <<[Name |-> "a", DataType |-> "String", StringValue |-> <<"x", "y">>]>>
AttrAxBy == <<[Name |-> "a", DataType |-> "String", StringValue |-> <<"x">>],
              [Name |-> "b", DataType |-> "String", StringValue |-> <<"y">>]>>
AttrAxBx == <<[Name |-> "a", DataType |-> "String", StringValue |-> <<"x">>],
              [Name |-> "b", DataType |-> "String", StringValue |-> <<"x">>]>>
AttrAzy == <<[Name |-> "a", DataType |-> "String.Array", StringValue |-> <<"z", "y">>]>>
AttrA5 == <<[Name |-> "a", DataType |-> "Number", StringValue |-> <<"5">>]>>
AttrA111 == <<[Name |-> "a", DataType |-> "Number", StringValue |-> <<"1", "1", "1">>]>>
\* The attribute a of type Number with the text chars
NumberAttr(chars) == <<[Name |-> "a", DataType |-> "Number", StringValue |-> chars]>>

\* float() of a StringValue of the model
to_float(chars) ==
  CASE chars = <<"9">> -> 9
    [] chars = <<"5">> -> 5
    [] chars = <<"-", "1">> -> -1
    [] chars = <<"1", "0", "0">> -> 100
    [] chars = <<"1", "1", "1">> -> 111
    [] OTHER -> 0

RECURSIVE get_message_attributes_from(_, _, _)
get_message_attributes_from(entries, x, attributes) ==
  IF x > Len(entries) THEN attributes
  ELSE LET e == entries[x]
           attribute == [Type |-> e.DataType,
                         Value |-> IF e.DataType = "Number"
                                   THEN Num(to_float(e.StringValue))
                                   ELSE Str(e.StringValue)]
       IN  get_message_attributes_from(entries, x + 1, Put(attributes, e.Name, attribute))

get_message_attributes(req_data) ==
  get_message_attributes_from(req_data.MessageAttributes, 1, EmptyDict)

\* --------------------------------------------------------- message bodies

is_raw_message_delivery(subscriber) ==
  Get(subscriber, "RawMessageDelivery") \in {"true", "True"}

\* json.loads of a Message text: ok is FALSE when the text is no JSON object
json_loads_message(text) ==
  CASE text = MsgJsonDefault ->
         [ok |-> TRUE, obj |-> [k \in {"default", "sqs"} |-> IF k = "sqs" THEN "s" ELSE "d"]]
    [] text = MsgJsonNoDefault ->
         [ok |-> TRUE, obj |-> [k \in {"sqs"} |-> "s"]]
    [] text = MsgJsonDefaultOnly ->
         [ok |-> TRUE, obj |-> [k \in {"default"} |-> "d"]]
    [] text = MsgJsonHttpOnly ->
         [ok |-> TRUE, obj |-> [k \in {"http"} |-> "h"]]
    [] OTHER -> [ok |-> FALSE, obj |-> EmptyDict]

\* message.get(protocol, message['default']): Python evaluates the default
\* argument first, so a payload without 'default' raises KeyError
select_message(obj, protocol) ==
  IF "default" \notin DOMAIN obj THEN [ok |-> FALSE, message |-> None]
  ELSE [ok |-> TRUE,
        message |-> IF protocol \in DOMAIN obj THEN obj[protocol] ELSE obj["default"]]

\* req_data.get('Type', ['Notification'])[0]
message_type(req_data) == IF req_data.Type = None THEN "Notification" ELSE req_data.Type

\* The envelope json.dumps serialises. MessageId, Timestamp and the token of
\* the UnsubscribeURL are fresh values and the signature fields are fixed
\* texts; they are left out.
envelope(subscriber, req_data, message) ==
  [envelope |-> TRUE,
   Type |-> message_type(req_data),
   TopicArn |-> subscriber["TopicArn"],
   Message |-> message,
   Subject |-> req_data.Subject,
   MessageAttributes |-> get_message_attributes(req_data)]

\* create_sns_message_body looking at the message structure before the raw
\* message delivery
create_sns_message_body_structure_first(subscriber, req_data) ==
  IF req_data.MessageStructure = "json"
  THEN LET parsed == json_loads_message(req_data.Message)
           chosen == select_message(parsed.obj, subscriber["Protocol"])
       IN  IF ~parsed.ok \/ ~chosen.ok
           THEN [ok |-> FALSE, body |-> None]
           ELSE [ok |-> TRUE, body |-> envelope(subscriber, req_data, chosen.message)]
  ELSE IF is_raw_message_delivery(subscriber)
  THEN [ok |-> TRUE, body |-> [envelope |-> FALSE, text |-> req_data.Message]]
  ELSE [ok |-> TRUE, body |-> envelope(subscriber, req_data, req_data.Message)]

\* [ok |-> FALSE] stands for a raised exception. The texts of this model are
\* ASCII, which the encoding under Python 2 leaves as they are.
create_sns_message_body(subscriber, req_data) ==
  IF is_raw_message_delivery(subscriber)
  THEN [ok |-> TRUE, body |-> [envelope |-> FALSE, text |-> req_data.Message]]
  ELSE IF req_data.MessageStructure = "json"
  THEN LET parsed == json_loads_message(req_data.Message)
           chosen == select_message(parsed.obj, subscriber["Protocol"])
       IN  IF ~parsed.ok \/ ~chosen.ok
           THEN [ok |-> FALSE, body |-> None]
           ELSE [ok |-> TRUE, body |-> envelope(subscriber, req_data, chosen.message)]
  ELSE [ok |-> TRUE, body |-> envelope(subscriber, req_data, req_data.Message)]

create_sqs_message_attributes(subscriber, attributes) ==
  IF ~is_raw_message_delivery(subscriber) THEN EmptyDict
  ELSE [key \in DOMAIN attributes |->
          [DataType |-> attributes[key].Type, Value |-> attributes[key].Value]]

\* ------------------------------------------------------------------ fanout

\* What a transport does with one call is the environment's choice:
\* "ok", "fail" (the send, the invocation or the callback fails) or
\* "unresolved" (get_sqs_queue_url fails for the queue name).
Outcomes == {"ok", "fail", "unresolved"}

\* '://' in endpoint
IsUrl(endpoint) == endpoint \in {HttpUrl}
\* endpoint.split(':')[5] exists
HasQueueName(endpoint) == endpoint \in {QueueArn, FunctionArn}
\* aws_stack.get_sqs_queue_url(queue_name)
get_sqs_queue_url(endpoint) == "http://localhost:4576/queue/q1"

\* sns_error_to_dead_letter_queue(sub_arn, req_data, error)
DeadLetter(subscriber, req_data) ==
  [SubscriptionArn |-> subscriber["SubscriptionArn"], req_data |-> req_data]

\* One pass of the loop body of publish_message for the subscriber at index i.
\* st: [subs, deliveries, dead_letters, returned, raised]; returned: the loop
\* was left, raised: by an exception that leaves publish_message too
sqs_step(st, i, req_data, outcome) ==
  LET subscriber == st.subs[i]
      endpoint == subscriber["Endpoint"]
      cached == "sqs_queue_url" \in DOMAIN subscriber
      lookup == ~cached /\ ~IsUrl(endpoint)
      resolved == ~lookup \/ (HasQueueName(endpoint) /\ outcome # "unresolved")
      queue_url == IF cached THEN subscriber["sqs_queue_url"]
                   ELSE IF IsUrl(endpoint) THEN endpoint
                   ELSE get_sqs_queue_url(endpoint)
      sub2 == IF lookup /\ resolved THEN Put(subscriber, "sqs_queue_url", queue_url)
              ELSE subscriber
      subs2 == [st.subs EXCEPT ![i] = sub2]
      built == create_sns_message_body(sub2, req_data)
      sent == resolved /\ built.ok
      call == [transport |-> "sqs",
               SubscriptionArn |-> sub2["SubscriptionArn"],
               target |-> queue_url,
               body |-> built.body,
               MessageAttributes |->
                 create_sqs_message_attributes(sub2, get_message_attributes(req_data)),
               succeeded |-> outcome = "ok"]
  IN  IF sent /\ outcome = "ok"
      THEN [st EXCEPT !.subs = subs2, !.deliveries = Append(@, call)]
      ELSE [st EXCEPT !.subs = subs2,
                      !.deliveries = IF sent THEN Append(@, call) ELSE @,
                      !.dead_letters = Append(@, DeadLetter(sub2, req_data)),
                      !.returned = TRUE]

lambda_step(st, i, req_data, topic_arn, outcome) ==
  LET subscriber == st.subs[i]
      call == [transport |-> "lambda",
               SubscriptionArn |-> subscriber["SubscriptionArn"],
               target |-> subscriber["Endpoint"],
               topic_arn |-> topic_arn,
               message |-> req_data.Message,
               MessageAttributes |-> get_message_attributes(req_data),
               subject |-> req_data.Subject,
               succeeded |-> outcome = "ok"]
  IN  IF outcome = "ok"
      THEN [st EXCEPT !.deliveries = Append(@, call)]
      ELSE [st EXCEPT !.deliveries = Append(@, call),
                      !.dead_letters = Append(@, DeadLetter(subscriber, req_data)),
                      !.returned = TRUE]

http_step_no_dead_letter(st, i, req_data, outcome) ==
  LET subscriber == st.subs[i]
      built == create_sns_message_body(subscriber, req_data)
      call == [transport |-> "http",
               SubscriptionArn |-> subscriber["SubscriptionArn"],
               target |-> subscriber["Endpoint"],
               msg_type |-> message_type(req_data),
               topic_arn |-> subscriber["TopicArn"],
               body |-> built.body,
               succeeded |-> outcome = "ok"]
  IN  IF ~built.ok THEN [st EXCEPT !.returned = TRUE]
      ELSE IF outcome = "ok"
      THEN [st EXCEPT !.deliveries = Append(@, call)]
      ELSE [st EXCEPT !.deliveries = Append(@, call), !.returned = TRUE]

http_step(st, i, req_data, outcome) ==
  LET subscriber == st.subs[i]
      built == create_sns_message_body(subscriber, req_data)
      call == [transport |-> "http",
               SubscriptionArn |-> subscriber["SubscriptionArn"],
               target |-> subscriber["Endpoint"],
               msg_type |-> message_type(req_data),
               topic_arn |-> subscriber["TopicArn"],
               body |-> built.body,
               succeeded |-> outcome = "ok"]
  IN  IF ~built.ok THEN [st EXCEPT !.returned = TRUE]
      ELSE IF outcome = "ok"
      THEN [st EXCEPT !.deliveries = Append(@, call)]
      ELSE [st EXCEPT !.deliveries = Append(@, call),
                      !.dead_letters = Append(@, DeadLetter(subscriber, req_data)),
                      !.returned = TRUE]

\* The filter policy check of the subscriber raises
FilterRaises(subscriber, req_data, subscription_arn) ==
  /\ subscription_arn \in {None, subscriber["SubscriptionArn"]}
  /\ LET text == Get(subscriber, "FilterPolicy")
         filter_policy == json_loads_policy(IF text = None THEN "{}" ELSE text)
     IN  check_filter_policy(filter_policy, get_message_attributes(req_data)).raised

Selected_unfiltered(subscriber, req_data, subscription_arn) ==
  subscription_arn \in {None, subscriber["SubscriptionArn"]}

Selected_untargeted(subscriber, req_data, subscription_arn) ==
  LET text == Get(subscriber, "FilterPolicy")
      filter_policy == json_loads_policy(IF text = None THEN "{}" ELSE text)
  IN  check_filter_policy(filter_policy, get_message_attributes(req_data)).result

\* publish_message leaving out of a publish to the topic the subscribers whose
\* status is not Subscribed
Selected_confirmed_only(subscriber, req_data, subscription_arn) ==
  /\ subscription_arn \in {None, subscriber["SubscriptionArn"]}
  /\ subscription_arn = None =>
       SUBSCRIPTION_STATUS[subscriber["SubscriptionArn"]].Status = "Subscribed"
  /\ LET text == Get(subscriber, "FilterPolicy")
         filter_policy == json_loads_policy(IF text = None THEN "{}" ELSE text)
     IN  check_filter_policy(filter_policy, get_message_attributes(req_data)).result

\* The subscriber is neither another one than the target nor rejected by its
\* filter policy
Selected(subscriber, req_data, subscription_arn) ==
  /\ subscription_arn \in {None, subscriber["SubscriptionArn"]}
  /\ LET text == Get(subscriber, "FilterPolicy")
         filter_policy == json_loads_policy(IF text = None THEN "{}" ELSE text)
     IN  check_filter_policy(filter_policy, get_message_attributes(req_data)).result

publish_step(st, i, topic_arn, req_data, subscription_arn, outcome) ==
  LET subscriber == st.subs[i]
  IN  IF FilterRaises(subscriber, req_data, subscription_arn)
      THEN [st EXCEPT !.raised = TRUE, !.returned = TRUE]
      ELSE IF ~Selected(subscriber, req_data, subscription_arn) THEN st
      ELSE IF subscriber["Protocol"] = "sqs" THEN sqs_step(st, i, req_data, outcome)
      ELSE IF subscriber["Protocol"] = "lambda"
        THEN lambda_step(st, i, req_data, topic_arn, outcome)
      ELSE IF subscriber["Protocol"] \in {"http", "https"}
        THEN http_step(st, i, req_data, outcome)
      ELSE st

RECURSIVE publish_loop(_, _, _, _, _, _)
publish_loop(st, i, topic_arn, req_data, subscription_arn, out) ==
  IF i > Len(st.subs) \/ st.returned THEN st
  ELSE publish_loop(publish_step(st, i, topic_arn, req_data, subscription_arn, out[i]),
                    i + 1, topic_arn, req_data, subscription_arn, out)

\* publish_message on the subscriber list subs of topic_arn; out[i] is the
\* outcome of the transport for the subscriber at index i
publish_message(subs, topic_arn, req_data, subscription_arn, out) ==
  publish_loop([subs |-> subs, deliveries |-> <<>>, dead_letters |-> <<>>,
                returned |-> FALSE, raised |-> FALSE],
               1, topic_arn, req_data, subscription_arn, out)

\* ---------------------------------------------------------------- registry

do_create_topic(subscriptions, topic_arn) ==
  IF topic_arn \notin DOMAIN subscriptions
  THEN Put(subscriptions, topic_arn, <<>>)
  ELSE subscriptions

do_delete_topic_emptied(subscriptions, topic_arn) ==
  IF topic_arn \in DOMAIN subscriptions THEN Put(subscriptions, topic_arn, <<>>)
  ELSE subscriptions

do_delete_topic(subscriptions, topic_arn) == Pop(subscriptions, topic_arn)

do_confirm_subscription_by_key(status, topic_arn, token) ==
  [k \in DOMAIN status |->
     IF status[k].Token = token /\ k = topic_arn
     THEN [status[k] EXCEPT !.Status = "Subscribed"]
     ELSE status[k]]

do_confirm_subscription_any_topic(status, topic_arn, token) ==
  [k \in DOMAIN status |->
     IF status[k].Token = token
     THEN [status[k] EXCEPT !.Status = "Subscribed"]
     ELSE status[k]]

do_confirm_subscription_live(status, topic_arn, token) ==
  [k \in DOMAIN status |->
     IF /\ status[k].Token = token /\ status[k].TopicArn = topic_arn
        /\ \E t \in DOMAIN SNS_SUBSCRIPTIONS : \E i \in 1..Len(SNS_SUBSCRIPTIONS[t]) :
             SNS_SUBSCRIPTIONS[t][i]["SubscriptionArn"] = k
     THEN [status[k] EXCEPT !.Status = "Subscribed"]
     ELSE status[k]]

do_confirm_subscription(status, topic_arn, token) ==
  [k \in DOMAIN status |->
     IF status[k].Token = token /\ status[k].TopicArn = topic_arn
     THEN [status[k] EXCEPT !.Status = "Subscribed"]
     ELSE status[k]]

\* SNS_SUBSCRIPTIONS.get(topic_arn, [])
SubscribersOf(subscriptions, topic_arn) ==
  IF topic_arn \in DOMAIN subscriptions THEN subscriptions[topic_arn] ELSE <<>>

\* The confirmation message do_subscribe sends for http and https
Confirmation(topic_arn, token) ==
  [Type |-> "SubscriptionConfirmation",
   Token |-> token,
   Message |-> "You have chosen to subscribe to the topic " \o topic_arn,
   SubscribeURL |-> [Action |-> "ConfirmSubscription", TopicArn |-> topic_arn,
                     Token |-> token],
   Subject |-> None, MessageStructure |-> None, MessageAttributes |-> <<>>]

\* An existing subscription of the topic has this endpoint
already_subscribed_wrong_key(existing, endpoint) ==
  \E i \in 1..Len(existing) : Get(existing[i], "endpoint") = endpoint

already_subscribed(existing, endpoint) ==
  \E i \in 1..Len(existing) : Get(existing[i], "Endpoint") = endpoint

\* do_subscribe undoing its writes when the confirmation is not delivered
do_subscribe_rolled_back(subscriptions, status, topic_arn, endpoint, protocol, subscription_arn, attributes, filter_policy, outcome) ==
  LET unchanged == [subscriptions |-> subscriptions, status |-> status,
                    deliveries |-> <<>>, dead_letters |-> <<>>, raised |-> FALSE]
      existing == SubscribersOf(subscriptions, topic_arn)
      subscription ==
        Update([k \in {"TopicArn", "Endpoint", "Protocol", "SubscriptionArn", "FilterPolicy"} |->
                  CASE k = "TopicArn" -> topic_arn
                    [] k = "Endpoint" -> endpoint
                    [] k = "Protocol" -> protocol
                    [] k = "SubscriptionArn" -> subscription_arn
                    [] OTHER -> filter_policy],
               attributes)
  IN  IF already_subscribed(existing, endpoint)
      THEN unchanged
      ELSE IF topic_arn \notin DOMAIN subscriptions
      THEN [unchanged EXCEPT !.raised = TRUE]
      ELSE LET appended == [subscriptions EXCEPT ![topic_arn] = Append(@, subscription)]
               status2 == Put(status, subscription_arn,
                              [TopicArn |-> topic_arn,
                               Token |-> short_uid(subscription_arn, "status"),
                               Status |-> "Not Subscribed"])
           IN  IF protocol \in {"http", "https"}
               THEN LET token == short_uid(subscription_arn, "confirmation")
                        sent == publish_message(appended[topic_arn], topic_arn,
                                                Confirmation(topic_arn, token),
                                                subscription_arn,
                                                [i \in 1..Len(appended[topic_arn]) |-> outcome])
                    IN  [subscriptions |-> IF sent.returned THEN subscriptions
                                           ELSE [appended EXCEPT ![topic_arn] = sent.subs],
                         status |-> IF sent.returned THEN status ELSE status2,
                         deliveries |-> sent.deliveries,
                         dead_letters |-> sent.dead_letters,
                         raised |-> FALSE]
               ELSE [unchanged EXCEPT !.subscriptions = appended, !.status = status2]

\* do_subscribe giving a topic that is not there an empty list first
do_subscribe_creates_topic(subscriptions, status, topic_arn, endpoint, protocol, subscription_arn, attributes, filter_policy, outcome) ==
  LET created == do_create_topic(subscriptions, topic_arn)
      existing == SubscribersOf(created, topic_arn)
      subscription ==
        Update([k \in {"TopicArn", "Endpoint", "Protocol", "SubscriptionArn", "FilterPolicy"} |->
                  CASE k = "TopicArn" -> topic_arn
                    [] k = "Endpoint" -> endpoint
                    [] k = "Protocol" -> protocol
                    [] k = "SubscriptionArn" -> subscription_arn
                    [] OTHER -> filter_policy],
               attributes)
  IN  IF already_subscribed(existing, endpoint)
      THEN [subscriptions |-> subscriptions, status |-> status,
            deliveries |-> <<>>, dead_letters |-> <<>>, raised |-> FALSE]
      ELSE LET appended == [created EXCEPT ![topic_arn] = Append(@, subscription)]
               status2 == Put(status, subscription_arn,
                              [TopicArn |-> topic_arn,
                               Token |-> short_uid(subscription_arn, "status"),
                               Status |-> "Not Subscribed"])
           IN  IF protocol \in {"http", "https"}
               THEN LET token == short_uid(subscription_arn, "confirmation")
                        sent == publish_message(appended[topic_arn], topic_arn,
                                                Confirmation(topic_arn, token),
                                                subscription_arn,
                                                [i \in 1..Len(appended[topic_arn]) |-> outcome])
                    IN  [subscriptions |-> [appended EXCEPT ![topic_arn] = sent.subs],
                         status |-> status2,
                         deliveries |-> sent.deliveries,
                         dead_letters |-> sent.dead_letters,
                         raised |-> FALSE]
               ELSE [subscriptions |-> appended, status |-> status2,
                     deliveries |-> <<>>, dead_letters |-> <<>>, raised |-> FALSE]

\* The effect of do_subscribe on [subscriptions, status], with what it sent;
\* raised is TRUE for the KeyError of appending to an absent topic, outcome is
\* what the callback of the confirmation message does
do_subscribe(subscriptions, status, topic_arn, endpoint, protocol, subscription_arn, attributes, filter_policy, outcome) ==
  LET unchanged == [subscriptions |-> subscriptions, status |-> status,
                    deliveries |-> <<>>, dead_letters |-> <<>>, raised |-> FALSE]
      existing == SubscribersOf(subscriptions, topic_arn)
      subscription ==
        Update([k \in {"TopicArn", "Endpoint", "Protocol", "SubscriptionArn", "FilterPolicy"} |->
                  CASE k = "TopicArn" -> topic_arn
                    [] k = "Endpoint" -> endpoint
                    [] k = "Protocol" -> protocol
                    [] k = "SubscriptionArn" -> subscription_arn
                    [] OTHER -> filter_policy],
               attributes)
  IN  IF already_subscribed(existing, endpoint)
      THEN unchanged
      ELSE IF topic_arn \notin DOMAIN subscriptions
      THEN [unchanged EXCEPT !.raised = TRUE]
      ELSE LET appended == [subscriptions EXCEPT ![topic_arn] = Append(@, subscription)]
               status2 == Put(status, subscription_arn,
                              [TopicArn |-> topic_arn,
                               Token |-> short_uid(subscription_arn, "status"),
                               Status |-> "Not Subscribed"])
           IN  IF protocol \in {"http", "https"}
               THEN LET token == short_uid(subscription_arn, "confirmation")
                        sent == publish_message(appended[topic_arn], topic_arn,
                                                Confirmation(topic_arn, token),
                                                subscription_arn,
                                                [i \in 1..Len(appended[topic_arn]) |-> outcome])
                    IN  [subscriptions |-> [appended EXCEPT ![topic_arn] = sent.subs],
                         status |-> status2,
                         deliveries |-> sent.deliveries,
                         dead_letters |-> sent.dead_letters,
                         raised |-> FALSE]
               ELSE [unchanged EXCEPT !.subscriptions = appended, !.status = status2]

\* do_unsubscribe dropping the topics it leaves without a subscription
do_unsubscribe_drops_empty(subscriptions, subscription_arn) ==
  LET kept == [topic_arn \in DOMAIN subscriptions |->
                 SelectSeq(subscriptions[topic_arn],
                           LAMBDA sub : sub["SubscriptionArn"] # subscription_arn)]
  IN  [topic_arn \in {t \in DOMAIN kept : kept[t] # <<>> \/ subscriptions[t] = <<>>} |->
         kept[topic_arn]]

do_unsubscribe(subscriptions, subscription_arn) ==
  [topic_arn \in DOMAIN subscriptions |->
     SelectSeq(subscriptions[topic_arn],
               LAMBDA sub : sub["SubscriptionArn"] # subscription_arn)]

\* Where get_subscription_by_arn finds the subscription: <<topic, index>>
Locations(subscriptions, sub_arn) ==
  UNION {{<<t, i>> : i \in {j \in 1..Len(subscriptions[t]) :
                                 subscriptions[t][j]["SubscriptionArn"] = sub_arn}} :
         t \in DOMAIN subscriptions}

\* get_subscription_by_arn returning the first subscription of the topic
\* that holds the ARN
get_subscription_by_arn_first_of_topic(subscriptions, sub_arn) ==
  <<(CHOOSE loc \in Locations(subscriptions, sub_arn) : TRUE)[1], 1>>

\* The first match in a topic; subscription ARNs are unique, so at most one
\* topic holds one
get_subscription_by_arn(subscriptions, sub_arn) ==
  CHOOSE loc \in Locations(subscriptions, sub_arn) :
    \A other \in Locations(subscriptions, sub_arn) :
      other[1] = loc[1] => loc[2] <= other[2]

\* ---------------------------------------------------------------------- tags

Deduplicated_kept_all(tags) ==
  [i \in 1..Len(tags) |-> [idx |-> i, tag |-> tags[i]]]

\* tags without the entries that occur earlier in tags
Deduplicated(tags) ==
  SelectSeq([i \in 1..Len(tags) |-> [idx |-> i, tag |-> tags[i]]],
            LAMBDA e : ~\E j \in 1..(e.idx - 1) : tags[j] = e.tag)

\* existing_tag_index finding no tag
existing_tag_index_none(existing_tags, item) == 0

\* existing_tag_index(item): 0 for None
existing_tag_index(existing_tags, item) ==
  IF \E idx \in 1..Len(existing_tags) : existing_tags[idx].Key = item.Key
  THEN CHOOSE idx \in 1..Len(existing_tags) :
         /\ existing_tags[idx].Key = item.Key
         /\ \A j \in 1..(idx - 1) : existing_tags[j].Key # item.Key
  ELSE 0

RECURSIVE merge_tags(_, _, _)
merge_tags(existing_tags, tags, i) ==
  IF i > Len(tags) THEN existing_tags
  ELSE LET item == tags[i].tag
           existing_index == existing_tag_index(existing_tags, item)
       IN  merge_tags(IF existing_index = 0 THEN Append(existing_tags, item)
                      ELSE [existing_tags EXCEPT ![existing_index] = item],
                      tags, i + 1)

do_tag_resource(all_tags, topic_arn, tags) ==
  LET existing_tags == IF topic_arn \in DOMAIN all_tags THEN all_tags[topic_arn] ELSE <<>>
  IN  Put(all_tags, topic_arn, merge_tags(existing_tags, Deduplicated(tags), 1))

\* _get_tags(topic_arn): the tags of the topic, [] for a topic without an entry
get_tags(all_tags, topic_arn) ==
  IF topic_arn \in DOMAIN all_tags THEN all_tags[topic_arn] ELSE <<>>

do_untag_resource(all_tags, topic_arn, tag_keys) ==
  Put(all_tags, topic_arn,
      SelectSeq(get_tags(all_tags, topic_arn), LAMBDA t : t.Key \notin tag_keys))

\* ---------------------------------------------------------------- responses

make_response(op_name, content) ==
  [status_code |-> 200, code_string |-> None, op_name |-> op_name,
   content |-> IF content = "" THEN "MessageId" ELSE content]

make_error(message, code, code_string) ==
  [status_code |-> code, code_string |-> code_string, message |-> message]

\* The request goes on to the backend, whose answer is the response
Forwarded(op_name) ==
  [status_code |-> 200, code_string |-> None, op_name |-> op_name,
   content |-> "backend"]

\* An exception leaves the handler
Raised(error) == [status_code |-> 500, code_string |-> error, message |-> error]

\* The ARN the backend gives the next new subscription
NextArn_reused == ArnTable[1]
NextArn == ArnTable[Cardinality(DOMAIN SUBSCRIPTION_STATUS) + 1]

NoDeliveries == deliveries' = <<>> /\ dead_letters' = <<>>

\* ------------------------------------------------------------------ handlers

Init ==
  /\ SNS_SUBSCRIPTIONS = EmptyDict
  /\ SUBSCRIPTION_STATUS = EmptyDict
  /\ SNS_TAGS = EmptyDict
  /\ request = [Action |-> "None"]
  /\ response = [status_code |-> 200, code_string |-> None, op_name |-> "None",
                 content |-> None]
  /\ deliveries = <<>>
  /\ dead_letters = <<>>
  /\ threads = [th \in Threads |-> Idle]

\* forward_request tags the topic, return_response registers it
CreateTopic(topic_arn, tags) ==
  /\ request' = [Action |-> "CreateTopic", TopicArn |-> topic_arn, Tags |-> tags]
  /\ SNS_TAGS' = do_tag_resource(SNS_TAGS, topic_arn, tags)
  /\ SNS_SUBSCRIPTIONS' = do_create_topic(SNS_SUBSCRIPTIONS, topic_arn)
  /\ response' = Forwarded("CreateTopic")
  /\ NoDeliveries
  /\ UNCHANGED SUBSCRIPTION_STATUS
  /\ UNCHANGED threads

DeleteTopic(topic_arn) ==
  /\ request' = [Action |-> "DeleteTopic", TopicArn |-> topic_arn]
  /\ SNS_SUBSCRIPTIONS' = do_delete_topic(SNS_SUBSCRIPTIONS, topic_arn)
  /\ response' = Forwarded("DeleteTopic")
  /\ NoDeliveries
  /\ UNCHANGED <<SUBSCRIPTION_STATUS, SNS_TAGS>>
  /\ UNCHANGED threads

\* forward_request checks the Endpoint, the backend names the subscription,
\* return_response calls do_subscribe
Subscribe(topic_arn, endpoint, protocol, attributes, filter_policy, outcome) ==
  /\ request' = [Action |-> "Subscribe", TopicArn |-> topic_arn, Endpoint |-> endpoint,
                 Protocol |-> protocol, Attributes |-> attributes,
                 FilterPolicy |-> filter_policy]
  /\ IF endpoint = None
     THEN /\ response' = make_error("Endpoint not specified in subscription", 400,
                                    "InvalidParameter")
          /\ NoDeliveries
          /\ UNCHANGED <<SNS_SUBSCRIPTIONS, SUBSCRIPTION_STATUS>>
     ELSE LET done == do_subscribe(SNS_SUBSCRIPTIONS, SUBSCRIPTION_STATUS, topic_arn,
                                   endpoint, protocol, NextArn, attributes,
                                   filter_policy, outcome)
          IN  /\ NextArn \in DOMAIN done.status =>
                   Cardinality(DOMAIN SUBSCRIPTION_STATUS) < MaxSubs
              /\ SNS_SUBSCRIPTIONS' = done.subscriptions
              /\ SUBSCRIPTION_STATUS' = done.status
              /\ deliveries' = done.deliveries
              /\ dead_letters' = done.dead_letters
              /\ response' = IF done.raised THEN Raised("KeyError")
                             ELSE Forwarded("Subscribe")
  /\ UNCHANGED SNS_TAGS
  /\ UNCHANGED threads

ConfirmSubscription(topic_arn, token) ==
  /\ request' = [Action |-> "ConfirmSubscription", TopicArn |-> topic_arn,
                 Token |-> token]
  /\ SUBSCRIPTION_STATUS' = do_confirm_subscription(SUBSCRIPTION_STATUS, topic_arn, token)
  /\ response' = Forwarded("ConfirmSubscription")
  /\ NoDeliveries
  /\ UNCHANGED <<SNS_SUBSCRIPTIONS, SNS_TAGS>>
  /\ UNCHANGED threads

Unsubscribe(subscription_arn) ==
  /\ request' = [Action |-> "Unsubscribe", SubscriptionArn |-> subscription_arn]
  /\ SNS_SUBSCRIPTIONS' = do_unsubscribe(SNS_SUBSCRIPTIONS, subscription_arn)
  /\ response' = Forwarded("Unsubscribe")
  /\ NoDeliveries
  /\ UNCHANGED <<SUBSCRIPTION_STATUS, SNS_TAGS>>
  /\ UNCHANGED threads

SetSubscriptionAttributes(subscription_arn, attr_name, attr_value) ==
  /\ request' = [Action |-> "SetSubscriptionAttributes",
                 SubscriptionArn |-> subscription_arn,
                 AttributeName |-> attr_name, AttributeValue |-> attr_value]
  /\ IF Locations(SNS_SUBSCRIPTIONS, subscription_arn) = {}
     THEN /\ response' = make_error("Unable to find subscription for given ARN", 400,
                                    "InvalidParameter")
          /\ UNCHANGED SNS_SUBSCRIPTIONS
     ELSE LET loc == get_subscription_by_arn(SNS_SUBSCRIPTIONS, subscription_arn)
          IN  /\ SNS_SUBSCRIPTIONS' =
                   [SNS_SUBSCRIPTIONS EXCEPT ![loc[1]][loc[2]] = Put(@, attr_name, attr_value)]
              /\ response' = make_response("SetSubscriptionAttributes", "")
  /\ NoDeliveries
  /\ UNCHANGED <<SUBSCRIPTION_STATUS, SNS_TAGS>>
  /\ UNCHANGED threads

GetSubscriptionAttributes(subscription_arn) ==
  /\ request' = [Action |-> "GetSubscriptionAttributes",
                 SubscriptionArn |-> subscription_arn]
  /\ IF Locations(SNS_SUBSCRIPTIONS, subscription_arn) = {}
     THEN response' = make_error("Unable to find subscription for given ARN", 400,
                                 "InvalidParameter")
     ELSE LET loc == get_subscription_by_arn(SNS_SUBSCRIPTIONS, subscription_arn)
          IN  response' = [make_response("GetSubscriptionAttributes", "Attributes")
                             EXCEPT !.content = SNS_SUBSCRIPTIONS[loc[1]][loc[2]]]
  /\ NoDeliveries
  /\ UNCHANGED <<SNS_SUBSCRIPTIONS, SUBSCRIPTION_STATUS, SNS_TAGS>>
  /\ UNCHANGED threads

\* _extract_tags collects Tags.member.N.{Key, Value} into the list tags
TagResource(topic_arn, tags) ==
  /\ request' = [Action |-> "TagResource", TopicArn |-> topic_arn, Tags |-> tags]
  /\ SNS_TAGS' = do_tag_resource(SNS_TAGS, topic_arn, tags)
  /\ response' = make_response("TagResource", "")
  /\ NoDeliveries
  /\ UNCHANGED <<SNS_SUBSCRIPTIONS, SUBSCRIPTION_STATUS>>
  /\ UNCHANGED threads

UntagResource(topic_arn, tag_keys) ==
  /\ request' = [Action |-> "UntagResource", TopicArn |-> topic_arn, TagKeys |-> tag_keys]
  /\ SNS_TAGS' = do_untag_resource(SNS_TAGS, topic_arn, tag_keys)
  /\ response' = make_response("UntagResource", "")
  /\ NoDeliveries
  /\ UNCHANGED <<SNS_SUBSCRIPTIONS, SUBSCRIPTION_STATUS>>
  /\ UNCHANGED threads

\* _get_tags gives the resource an empty list when it has none; the content
\* of the response is the list
ListTagsForResource(topic_arn) ==
  /\ request' = [Action |-> "ListTagsForResource", TopicArn |-> topic_arn]
  /\ SNS_TAGS' = Put(SNS_TAGS, topic_arn, get_tags(SNS_TAGS, topic_arn))
  /\ response' = [make_response("ListTagsForResource", "Tags")
                    EXCEPT !.content = get_tags(SNS_TAGS, topic_arn)]
  /\ NoDeliveries
  /\ UNCHANGED <<SNS_SUBSCRIPTIONS, SUBSCRIPTION_STATUS>>
  /\ UNCHANGED threads

\* req_data.get('TargetArn') or req_data.get('TopicArn')
RequestTopic(req) == IF req.TargetArn # None THEN req.TargetArn ELSE req.TopicArn

\* req_data.get('Subject') == ['']
EmptySubject_falsy(req) == req.Subject = None
EmptySubject(req) == req.Subject = ""

\* An SMS or a single push notification: 'PhoneNumber' or 'TargetArn' is given
IsDirect_phone_only(req) == req.PhoneNumber # None
IsDirect(req) == req.PhoneNumber # None \/ req.TargetArn # None

\* topic_arn in SNS_SUBSCRIPTIONS.keys()
TopicKnown_unchecked(subscriptions, topic_arn) == TRUE
TopicKnown(subscriptions, topic_arn) == topic_arn \in DOMAIN subscriptions

\* The answer after publish_message, whose return value is dropped
PublishResponse_returned(sent) ==
  IF sent.returned THEN make_error("delivery failed", 400, "InvalidParameter")
  ELSE make_response("Publish", "")
PublishResponse(sent) == make_response("Publish", "")

Publish(req, out) ==
  /\ request' = req
  /\ IF EmptySubject(req)
     THEN /\ response' = make_error("Subject", 400, "InvalidParameter")
          /\ NoDeliveries
          /\ UNCHANGED SNS_SUBSCRIPTIONS
     ELSE IF ~IsDirect(req)
     THEN IF ~TopicKnown(SNS_SUBSCRIPTIONS, RequestTopic(req))
          THEN /\ response' = make_error("Topic does not exist", 404, "NotFound")
               /\ NoDeliveries
               /\ UNCHANGED SNS_SUBSCRIPTIONS
          ELSE LET topic_arn == RequestTopic(req)
                   subs == SubscribersOf(SNS_SUBSCRIPTIONS, topic_arn)
                   sent == publish_message(subs, topic_arn, req, None, out)
               IN  /\ SNS_SUBSCRIPTIONS' =
                        IF topic_arn \in DOMAIN SNS_SUBSCRIPTIONS
                        THEN [SNS_SUBSCRIPTIONS EXCEPT ![topic_arn] = sent.subs]
                        ELSE SNS_SUBSCRIPTIONS
                   /\ deliveries' = sent.deliveries
                   /\ dead_letters' = sent.dead_letters
                   /\ response' = IF sent.raised THEN Raised("AttributeError")
                                  ELSE PublishResponse(sent)
     ELSE /\ response' = make_response("Publish", "")
          /\ NoDeliveries
          /\ UNCHANGED SNS_SUBSCRIPTIONS
  /\ UNCHANGED <<SUBSCRIPTION_STATUS, SNS_TAGS>>
  /\ UNCHANGED threads

\* --------------------------------------------------------------- the inputs

SubscriptionArns == {ArnTable[i] : i \in 1..MaxSubs}

\* The tokens a caller can have seen: those of the status entries and those
\* of the confirmation messages
Tokens == {short_uid(arn, site) : arn \in DOMAIN SUBSCRIPTION_STATUS,
                                  site \in {"status", "confirmation"}}

NoAttrs == EmptyDict
WithFilterPolicy == [k \in {"FilterPolicy"} |-> PolicyAx]

\* What the transport can do for a subscriber: only the lookup of a queue URL
\* can be "unresolved", and an unsupported protocol has no transport
OutcomesFor(subscriber) ==
  IF subscriber["Protocol"] = "sqs"
  THEN IF "sqs_queue_url" \in DOMAIN subscriber \/ IsUrl(subscriber["Endpoint"])
       THEN {"ok", "fail"} ELSE Outcomes
  ELSE IF subscriber["Protocol"] \in {"lambda", "http", "https"} THEN {"ok", "fail"}
  ELSE {"ok"}

OutcomesOf(subs) ==
  {out \in [1..Len(subs) -> Outcomes] : \A i \in 1..Len(subs) : out[i] \in OutcomesFor(subs[i])}

\* A publish request: the parameters of the form, None for an absent one
PublishRequest(t, ta, ph, sj, m, ms, ma) ==
  [Action |-> "Publish", TopicArn |-> t, TargetArn |-> ta, PhoneNumber |-> ph,
   Subject |-> sj, Message |-> m, MessageStructure |-> ms, MessageAttributes |-> ma,
   Type |-> None]

PhoneNumber == "+33000000000"
PlatformEndpointArn == "arn:aws:sns:us-east-1:000000000000:endpoint/APNS/abcdef"

\* ------------------------------------------------- the registry's handlers

\* (endpoint, protocol, attributes) of the Subscribe requests
RegistrySubscribes ==
  {<<QueueArn, "sqs", NoAttrs>>, <<HttpUrl, "http", NoAttrs>>,
   <<HttpUrl, "http", WithFilterPolicy>>}

\* (name, value) of the SetSubscriptionAttributes requests
RegistrySettings ==
  {<<"Endpoint", QueueArn>>}

Next ==
  \/ \E t \in Topics : CreateTopic(t, <<>>)
  \/ \E t \in Topics : DeleteTopic(t)
  \/ \E t \in Topics, s \in RegistrySubscribes, o \in {"ok", "fail"} :
       Subscribe(t, s[1], s[2], s[3], None, o)
  \/ \E t \in Topics, token \in Tokens : ConfirmSubscription(t, token)
  \/ \E arn \in SubscriptionArns : Unsubscribe(arn)
  \/ \E arn \in SubscriptionArns, s \in RegistrySettings :
       SetSubscriptionAttributes(arn, s[1], s[2])
  \/ \E arn \in SubscriptionArns : GetSubscriptionAttributes(arn)

Spec == Init /\ [][Next]_vars

\* ------------------------------------------------------------- the fanout

PublishSubscribes ==
  {<<QueueArn, "sqs", NoAttrs>>, <<FunctionArn, "lambda", NoAttrs>>,
   <<HttpUrl, "http", NoAttrs>>, <<EmailAddress, "email", NoAttrs>>,
   <<QueueArn, "sqs", WithFilterPolicy>>}

PublishRequests ==
  \* to a topic, without and with the attribute the filter policy asks for
  {PublishRequest(t, None, None, None, MsgPlain, None, ma) :
     t \in Topics, ma \in {NoAttributes, AttrAx}}
  \* a JSON message structure without a default entry
  \cup {PublishRequest(t, None, None, None, MsgJsonNoDefault, "json", AttrAx) :
          t \in Topics}
  \* an empty subject
  \cup {PublishRequest(t, None, ph, "", MsgPlain, None, NoAttributes) :
          t \in {"topic-1"}, ph \in {None, PhoneNumber}}
  \* to a phone number or a platform endpoint
  \cup {PublishRequest(None, None, PhoneNumber, sj, MsgPlain, None, NoAttributes) :
          sj \in {None, "subject"}}
  \cup {PublishRequest(None, PlatformEndpointArn, None, None, MsgPlain, None, NoAttributes)}

NextPublish ==
  \/ \E t \in Topics : CreateTopic(t, <<>>)
  \/ \E t \in Topics : DeleteTopic(t)
  \/ \E t \in Topics, s \in PublishSubscribes, o \in {"ok", "fail"} :
       Subscribe(t, s[1], s[2], s[3], None, o)
  \/ \E req \in PublishRequests :
       \E out \in OutcomesOf(SubscribersOf(SNS_SUBSCRIPTIONS, RequestTopic(req))) :
         Publish(req, out)

SpecPublish == Init /\ [][NextPublish]_vars

\* ---------------------------------------------------------------- the tags

TagKeys == {"123", "456"}
TagValues == {"abc", "def"}
Tag == [Key : TagKeys, Value : TagValues]

\* The lists of tags a request carries
TagLists == UNION {[1..n -> Tag] : n \in 0..MaxTags}

NextTags ==
  \/ \E tags \in {l \in TagLists : Len(l) <= 1} : CreateTopic("topic-1", tags)
  \/ \E tags \in TagLists : TagResource("topic-1", tags)
  \/ \E keys \in SUBSET TagKeys : UntagResource("topic-1", keys)
  \/ \E t \in Topics : ListTagsForResource(t)

SpecTags == Init /\ [][NextTags]_vars

\* -------------------------------------------------------- the filter policy

\* The FilterPolicy attribute of the Subscribe requests; None for none
FilterPolicies ==
  {None, "{}", PolicyAx, PolicyAxOrY, PolicyAxBy, PolicyPrefixOrFive, PolicyNumeric,
   PolicyAnythingBut}

\* The MessageAttributes of the Publish requests
FilterAttributes ==
  {NoAttributes, AttrAx, AttrAy, AttrAxy, AttrAxBy, AttrAxBx, AttrAzy, AttrA5, AttrA111}

\* Queues subscribed with a filter policy, and messages published to them;
\* every send succeeds
NextFilter ==
  \/ \E t \in Topics : CreateTopic(t, <<>>)
  \/ \E t \in Topics, p \in FilterPolicies :
       Subscribe(t, QueueArn, "sqs",
                 IF p = None THEN NoAttrs ELSE [k \in {"FilterPolicy"} |-> p], None, "ok")
  \/ \E t \in Topics, ma \in FilterAttributes :
       Publish(PublishRequest(t, None, None, None, MsgPlain, None, ma),
               [i \in 1..Len(SubscribersOf(SNS_SUBSCRIPTIONS, t)) |-> "ok"])

SpecFilter == Init /\ [][NextFilter]_vars

\* ------------------------------------------------- the numeric conditions

\* The texts of the Number attributes of the Publish requests
NumericValues == {<<"-", "1">>, <<"0">>, <<"5">>, <<"1", "0", "0">>, <<"1", "1", "1">>}

\* A queue subscribed with a numeric condition on the attribute a, and the
\* messages published to it: a as a Number, a as a String, no a
NextNumeric ==
  \/ CreateTopic("topic-1", <<>>)
  \/ \E c \in NumericConditions :
       Subscribe("topic-1", QueueArn, "sqs", [k \in {"FilterPolicy"} |-> NumericText(c)],
                 None, "ok")
  \/ \E ma \in {NumberAttr(chars) : chars \in NumericValues} \cup {AttrAx, NoAttributes} :
       Publish(PublishRequest("topic-1", None, None, None, MsgPlain, None, ma),
               [i \in 1..Len(SubscribersOf(SNS_SUBSCRIPTIONS, "topic-1")) |-> "ok"])

SpecNumeric == Init /\ [][NextNumeric]_vars

\* ------------------------------------------------------ the message bodies

RawAttrs == [k \in {"RawMessageDelivery"} |-> "true"]

\* (endpoint, protocol, attributes) of the Subscribe requests: each transport
\* without and with raw message delivery
BodySubscribes ==
  {<<QueueArn, "sqs", a>> : a \in {NoAttrs, RawAttrs}}
  \cup {<<HttpUrl, "http", a>> : a \in {NoAttrs, RawAttrs}}
  \cup {<<FunctionArn, "lambda", a>> : a \in {NoAttrs, RawAttrs}}

\* (Message, MessageStructure) of the Publish requests
BodyMessages ==
  {<<MsgPlain, None>>, <<MsgJsonDefault, None>>, <<MsgPlain, "json">>}
  \cup {<<m, "json">> : m \in {MsgJsonDefault, MsgJsonNoDefault, MsgJsonDefaultOnly,
                                MsgJsonHttpOnly}}

NextBody ==
  \/ CreateTopic("topic-1", <<>>)
  \/ \E s \in BodySubscribes : Subscribe("topic-1", s[1], s[2], s[3], None, "ok")
  \/ \E m \in BodyMessages :
       \E out \in [1..Len(SubscribersOf(SNS_SUBSCRIPTIONS, "topic-1")) -> {"ok", "fail"}] :
         Publish(PublishRequest("topic-1", None, None, None, m[1], m[2], NoAttributes), out)

SpecBody == Init /\ [][NextBody]_vars

\* ------------------------------------------------- the confirmation status

\* (endpoint, protocol) of the Subscribe requests
AttributeSubscribes == {<<QueueArn, "sqs">>, <<HttpUrl, "http">>}

\* Subscriptions of one topic, confirmed or not, and messages published to
\* it; every send succeeds
NextConfirmed ==
  \/ CreateTopic("topic-1", <<>>)
  \/ \E s \in AttributeSubscribes : Subscribe("topic-1", s[1], s[2], NoAttrs, None, "ok")
  \/ \E token \in Tokens : ConfirmSubscription("topic-1", token)
  \/ Publish(PublishRequest("topic-1", None, None, None, MsgPlain, None, NoAttributes),
             [i \in 1..Len(SubscribersOf(SNS_SUBSCRIPTIONS, "topic-1")) |-> "ok"])

SpecConfirmed == Init /\ [][NextConfirmed]_vars

\* ------------------------------------------- the subscription attributes

\* (name, value) of the SetSubscriptionAttributes requests
AttributeSettings == {<<"FilterPolicy", PolicyAx>>, <<"RawMessageDelivery", "true">>}

\* Subscriptions made without attributes, set and removed later, and messages
\* published to them; every send succeeds
NextAttributes ==
  \/ \E t \in Topics : CreateTopic(t, <<>>)
  \/ \E t \in Topics, s \in AttributeSubscribes :
       Subscribe(t, s[1], s[2], NoAttrs, None, "ok")
  \/ \E arn \in SubscriptionArns : Unsubscribe(arn)
  \/ \E arn \in SubscriptionArns, s \in AttributeSettings :
       SetSubscriptionAttributes(arn, s[1], s[2])
  \/ \E t \in Topics, ma \in {NoAttributes, AttrAx} :
       Publish(PublishRequest(t, None, None, None, MsgPlain, None, ma),
               [i \in 1..Len(SubscribersOf(SNS_SUBSCRIPTIONS, t)) |-> "ok"])

SpecAttributes == Init /\ [][NextAttributes]_vars

\* ------------------------------------------- handlers that run concurrently

\* Two handler threads run do_subscribe and do_unsubscribe on the shared
\* dicts, which no lock guards. A step is a stretch of the function between
\* two accesses to a shared list: the threads can switch between any two
\* bytecodes, so every interleaving of these steps can happen. request and
\* response stay those of the last handler that ran alone.

\* The order in which a loop over SNS_SUBSCRIPTIONS visits the topics
TopicOrder == <<"topic-1", "topic-2">>

\* The ARN the backend gives the subscription of a thread's request
ThreadArn ==
  ArnTable[Cardinality(DOMAIN SUBSCRIPTION_STATUS \cup
                       {threads[u].subscription_arn :
                          u \in {v \in Threads : threads[v].op = "Subscribe"}}) + 1]

\* The dict do_subscribe appends
new_subscription(topic_arn, endpoint, protocol, subscription_arn, attributes, filter_policy) ==
  Update([k \in {"TopicArn", "Endpoint", "Protocol", "SubscriptionArn", "FilterPolicy"} |->
            CASE k = "TopicArn" -> topic_arn
              [] k = "Endpoint" -> endpoint
              [] k = "Protocol" -> protocol
              [] k = "SubscriptionArn" -> subscription_arn
              [] OTHER -> filter_policy],
         attributes)

\* do_subscribe, the loop over the existing subscriptions of the topic
SubscribeCheck(th, topic_arn, endpoint, protocol) ==
  /\ threads[th].pc = "idle"
  /\ threads' = [threads EXCEPT ![th] =
        [Idle EXCEPT !.op = "Subscribe", !.topic_arn = topic_arn,
                     !.endpoint = endpoint, !.protocol = protocol,
                     !.subscription_arn = ThreadArn,
                     !.pc = IF already_subscribed(
                                  SubscribersOf(SNS_SUBSCRIPTIONS, topic_arn), endpoint)
                            THEN "done" ELSE "append"]]
  /\ UNCHANGED <<SNS_SUBSCRIPTIONS, SUBSCRIPTION_STATUS, SNS_TAGS, request, response,
                 deliveries, dead_letters>>

\* SNS_SUBSCRIPTIONS[topic_arn].append(subscription); KeyError ends the
\* handler when the topic is not there
SubscribeAppend(th) ==
  /\ threads[th].pc = "append"
  /\ LET t == threads[th]
     IN  IF t.topic_arn \notin DOMAIN SNS_SUBSCRIPTIONS
         THEN /\ threads' = [threads EXCEPT ![th].pc = "done"]
              /\ UNCHANGED SNS_SUBSCRIPTIONS
         ELSE /\ SNS_SUBSCRIPTIONS' =
                   [SNS_SUBSCRIPTIONS EXCEPT ![t.topic_arn] =
                      Append(@, new_subscription(t.topic_arn, t.endpoint, t.protocol,
                                                 t.subscription_arn, EmptyDict, None))]
              /\ threads' = [threads EXCEPT ![th].pc = "status"]
  /\ UNCHANGED <<SUBSCRIPTION_STATUS, SNS_TAGS, request, response, deliveries, dead_letters>>

\* The entry of SUBSCRIPTION_STATUS
SubscribeStatus(th) ==
  /\ threads[th].pc = "status"
  /\ LET t == threads[th]
     IN  /\ SUBSCRIPTION_STATUS' =
              Put(SUBSCRIPTION_STATUS, t.subscription_arn,
                  [TopicArn |-> t.topic_arn,
                   Token |-> short_uid(t.subscription_arn, "status"),
                   Status |-> "Not Subscribed"])
         /\ threads' = [threads EXCEPT ![th].pc =
                          IF t.protocol \in {"http", "https"} THEN "confirm" ELSE "done"]
  /\ UNCHANGED <<SNS_SUBSCRIPTIONS, SNS_TAGS, request, response, deliveries, dead_letters>>

\* The confirmation message for http and https
SubscribeConfirm(th) ==
  /\ threads[th].pc = "confirm"
  /\ LET t == threads[th]
         subs == SubscribersOf(SNS_SUBSCRIPTIONS, t.topic_arn)
         sent == publish_message(subs, t.topic_arn,
                                 Confirmation(t.topic_arn,
                                              short_uid(t.subscription_arn, "confirmation")),
                                 t.subscription_arn, [i \in 1..Len(subs) |-> "ok"])
     IN  /\ SNS_SUBSCRIPTIONS' =
              IF t.topic_arn \in DOMAIN SNS_SUBSCRIPTIONS
              THEN [SNS_SUBSCRIPTIONS EXCEPT ![t.topic_arn] = sent.subs]
              ELSE SNS_SUBSCRIPTIONS
         /\ deliveries' = sent.deliveries
         /\ dead_letters' = sent.dead_letters
         /\ threads' = [threads EXCEPT ![th].pc = "done"]
  /\ UNCHANGED <<SUBSCRIPTION_STATUS, SNS_TAGS, request, response>>

\* do_unsubscribe, the start of the loop over the topics
UnsubscribeBegin(th, subscription_arn) ==
  /\ threads[th].pc = "idle"
  /\ LET pending == SelectSeq(TopicOrder, LAMBDA t : t \in DOMAIN SNS_SUBSCRIPTIONS)
     IN  threads' = [threads EXCEPT ![th] =
           [Idle EXCEPT !.op = "Unsubscribe", !.subscription_arn = subscription_arn,
                        !.pending = pending,
                        !.pc = IF pending = <<>> THEN "done" ELSE "read"]]
  /\ UNCHANGED <<SNS_SUBSCRIPTIONS, SUBSCRIPTION_STATUS, SNS_TAGS, request, response,
                 deliveries, dead_letters>>

\* The list comprehension over the list of the topic, which builds a new list
UnsubscribeRead(th) ==
  /\ threads[th].pc = "read"
  /\ LET t == threads[th]
     IN  threads' = [threads EXCEPT
           ![th].rebuilt = do_unsubscribe(SNS_SUBSCRIPTIONS, t.subscription_arn)[Head(t.pending)],
           ![th].pc = "write"]
  /\ UNCHANGED <<SNS_SUBSCRIPTIONS, SUBSCRIPTION_STATUS, SNS_TAGS, request, response,
                 deliveries, dead_letters>>

\* SNS_SUBSCRIPTIONS[topic_arn] = the new list
UnsubscribeWrite(th) ==
  /\ threads[th].pc = "write"
  /\ LET t == threads[th]
     IN  /\ SNS_SUBSCRIPTIONS' = [SNS_SUBSCRIPTIONS EXCEPT ![Head(t.pending)] = t.rebuilt]
         /\ threads' = [threads EXCEPT
               ![th].pending = Tail(t.pending),
               ![th].rebuilt = <<>>,
               ![th].pc = IF Len(t.pending) = 1 THEN "done" ELSE "read"]
  /\ UNCHANGED <<SUBSCRIPTION_STATUS, SNS_TAGS, request, response, deliveries, dead_letters>>

\* No thread has begun a request
AllIdle == \A th \in Threads : threads[th].pc = "idle"

\* (endpoint, protocol) of the Subscribe requests
ThreadSubscribes == {<<QueueArn, "sqs">>, <<HttpUrl, "http">>}

\* Requests handled one at a time set the registry up; then each thread
\* handles one request
NextThreads ==
  \/ AllIdle /\ CreateTopic("topic-1", <<>>)
  \/ AllIdle /\ \E s \in ThreadSubscribes :
                  Subscribe("topic-1", s[1], s[2], NoAttrs, None, "ok")
  \/ \E th \in Threads, s \in ThreadSubscribes : SubscribeCheck(th, "topic-1", s[1], s[2])
  \/ \E th \in Threads : SubscribeAppend(th)
  \/ \E th \in Threads : SubscribeStatus(th)
  \/ \E th \in Threads : SubscribeConfirm(th)
  \/ \E th \in Threads, arn \in SubscriptionArns : UnsubscribeBegin(th, arn)
  \/ \E th \in Threads : UnsubscribeRead(th)
  \/ \E th \in Threads : UnsubscribeWrite(th)

SpecThreads == Init /\ [][NextThreads]_vars

\* ------------------------------------------------------------------ claims

\* The subscribers of the topic the last request named
Subscribers == SubscribersOf(SNS_SUBSCRIPTIONS, request.TopicArn)

\* The last request was a Publish that went through the fanout
Fanout ==
  /\ request.Action = "Publish"
  /\ request.Subject # ""
  /\ request.PhoneNumber = None /\ request.TargetArn = None
  /\ request.TopicArn \in DOMAIN SNS_SUBSCRIPTIONS

\* The subscriber's filter policy accepts the attributes of the request
Accepts(subscriber, req_data) ==
  check_filter_policy(
    json_loads_policy(IF Get(subscriber, "FilterPolicy") = None THEN "{}"
                      ELSE subscriber["FilterPolicy"]),
    get_message_attributes(req_data)).result

HasTransport(subscriber) == subscriber["Protocol"] \in {"sqs", "lambda", "http", "https"}

DeliveredTo(arn) == \E k \in 1..Len(deliveries) : deliveries[k].SubscriptionArn = arn
DeadLetteredFor(arn) == \E k \in 1..Len(dead_letters) : dead_letters[k].SubscriptionArn = arn

\* C1: no topic's subscriber list holds two subscriptions with the same
\* Endpoint, in any state CreateTopic, Subscribe, Unsubscribe,
\* SetSubscriptionAttributes and DeleteTopic reach.
C1_NoDuplicateEndpoints ==
  \A t \in DOMAIN SNS_SUBSCRIPTIONS :
    \A i, j \in 1..Len(SNS_SUBSCRIPTIONS[t]) :
      i # j => SNS_SUBSCRIPTIONS[t][i]["Endpoint"] # SNS_SUBSCRIPTIONS[t][j]["Endpoint"]

\* C2: when a delivery of a publish fails, every other subscriber of the
\* topic that the filter accepts still gets its delivery attempt. Stated for
\* the requests without a message structure, whose bodies always build.
C2_FailureIsolation ==
  (Fanout /\ request.MessageStructure = None /\ dead_letters # <<>>) =>
    \A i \in 1..Len(Subscribers) :
      (/\ Accepts(Subscribers[i], request)
       /\ HasTransport(Subscribers[i])
       /\ ~DeadLetteredFor(Subscribers[i]["SubscriptionArn"]))
        => DeliveredTo(Subscribers[i]["SubscriptionArn"])

\* C3: a Subscribe with an endpoint the topic already holds changes neither
\* the subscriber lists nor any subscription's attributes nor any
\* confirmation status entry, and sends nothing, whatever its protocol.
C3_ResubscribeIsNoOp ==
  [][(/\ request'.Action = "Subscribe"
      /\ \E i \in 1..Len(SubscribersOf(SNS_SUBSCRIPTIONS, request'.TopicArn)) :
           SNS_SUBSCRIPTIONS[request'.TopicArn][i]["Endpoint"] = request'.Endpoint)
     => (/\ UNCHANGED <<SNS_SUBSCRIPTIONS, SUBSCRIPTION_STATUS>>
         /\ deliveries' = <<>>
         /\ dead_letters' = <<>>)]_vars

\* A Subscribe for http asking for a filter policy, answered while the topic
\* holds that endpoint without one: the request was the second for the endpoint.
C3_Witness ==
  /\ request.Action = "Subscribe"
  /\ request.Protocol = "http"
  /\ request.Attributes = WithFilterPolicy
  /\ \E i \in 1..Len(Subscribers) :
       /\ Subscribers[i]["Endpoint"] = request.Endpoint
       /\ Subscribers[i]["FilterPolicy"] = None
  /\ deliveries = <<>>

\* C4: in a publish, every failed transport call has a dead-letter call for
\* the same subscription ARN carrying the publish request, and every
\* dead-letter call is for a subscriber of the topic that was not skipped and
\* whose delivery did not succeed.
C4_DeadLetterOnFailure ==
  Fanout =>
    /\ \A k \in 1..Len(deliveries) :
         ~deliveries[k].succeeded =>
           \E l \in 1..Len(dead_letters) :
             /\ dead_letters[l].SubscriptionArn = deliveries[k].SubscriptionArn
             /\ dead_letters[l].req_data = request
    /\ \A l \in 1..Len(dead_letters) :
         /\ dead_letters[l].req_data = request
         /\ \E i \in 1..Len(Subscribers) :
              /\ Subscribers[i]["SubscriptionArn"] = dead_letters[l].SubscriptionArn
              /\ Accepts(Subscribers[i], request)
              /\ HasTransport(Subscribers[i])
         /\ ~\E k \in 1..Len(deliveries) :
              /\ deliveries[k].SubscriptionArn = dead_letters[l].SubscriptionArn
              /\ deliveries[k].succeeded

\* A publish whose callback to an http subscriber failed
C4_Witness ==
  /\ Fanout
  /\ \E k \in 1..Len(deliveries) :
       deliveries[k].transport = "http" /\ ~deliveries[k].succeeded
  /\ dead_letters # <<>>

\* C5: a Publish to an existing topic is answered with the success
\* acknowledgment, whatever the deliveries to the subscribers did.
C5_PublishSucceeds ==
  Fanout =>
    /\ response.status_code = 200
    /\ response.op_name = "Publish"
    /\ response.content = "MessageId"

\* A publish answered after a delivery failed
C5_Witness ==
  /\ Fanout
  /\ dead_letters # <<>>
  /\ \E k \in 1..Len(deliveries) : ~deliveries[k].succeeded

\* The subscription the deliveries of the last request may go to: any of the
\* topic for a Publish, the one just added for a Subscribe
Targeted(subscriber) ==
  request.Action = "Subscribe" =>
    subscriber["SubscriptionArn"] = Subscribers[Len(Subscribers)]["SubscriptionArn"]

\* What the subscribers of the last request are asked to accept: the
\* publish request, or the confirmation message of a Subscribe
Sent ==
  IF request.Action = "Subscribe"
  THEN Confirmation(request.TopicArn,
                    short_uid(Subscribers[Len(Subscribers)]["SubscriptionArn"],
                              "confirmation"))
  ELSE request

\* C6: the transport is invoked at most once per subscription, and only for
\* subscriptions of the topic's list that the filter policy accepts and that
\* are the target when one is given.
C6_AtMostOnceAndSelected ==
  /\ \A k, l \in 1..Len(deliveries) :
       k # l => deliveries[k].SubscriptionArn # deliveries[l].SubscriptionArn
  /\ \A k \in 1..Len(deliveries) :
       /\ request.Action \in {"Publish", "Subscribe"}
       /\ \E i \in 1..Len(Subscribers) :
            /\ Subscribers[i]["SubscriptionArn"] = deliveries[k].SubscriptionArn
            /\ Accepts(Subscribers[i], Sent)
            /\ Targeted(Subscribers[i])

\* A publish that reached one subscriber of a topic and skipped another one,
\* whose filter policy rejects it
C6_Witness ==
  /\ Fanout
  /\ Len(deliveries) = 1
  /\ \E i \in 1..Len(Subscribers) :
       /\ ~Accepts(Subscribers[i], request)
       /\ HasTransport(Subscribers[i])
       /\ ~DeliveredTo(Subscribers[i]["SubscriptionArn"])

\* The request is a Publish to a topic, with neither PhoneNumber nor TargetArn
TopicPublish(req) ==
  req.Action = "Publish" /\ req.PhoneNumber = None /\ req.TargetArn = None

NotFoundAndNothingDone ==
  /\ response'.status_code = 404
  /\ response'.code_string = "NotFound"
  /\ deliveries' = <<>>
  /\ dead_letters' = <<>>
  /\ UNCHANGED <<SNS_SUBSCRIPTIONS, SUBSCRIPTION_STATUS, SNS_TAGS>>

\* C7 as stated: every Publish without PhoneNumber and TargetArn that names
\* a topic the registry does not hold is answered NotFound.
C7_AsStated ==
  [][(TopicPublish(request') /\ request'.TopicArn \notin DOMAIN SNS_SUBSCRIPTIONS)
     => NotFoundAndNothingDone]_vars

\* C7: a Publish without PhoneNumber and TargetArn, whose Subject is not
\* empty, that names a topic the registry does not hold is answered NotFound,
\* makes no delivery attempt and leaves the registry unchanged.
C7_UnknownTopicNotFound ==
  [][(/\ TopicPublish(request')
      /\ request'.Subject # ""
      /\ request'.TopicArn \notin DOMAIN SNS_SUBSCRIPTIONS)
     => NotFoundAndNothingDone]_vars

\* NotFound for a topic that was created, subscribed to and deleted since
C7_Witness ==
  /\ TopicPublish(request)
  /\ request.TopicArn \in Topics \ DOMAIN SNS_SUBSCRIPTIONS
  /\ request.TopicArn \in DOMAIN SNS_TAGS
  /\ \E arn \in DOMAIN SUBSCRIPTION_STATUS :
       SUBSCRIPTION_STATUS[arn].TopicArn = request.TopicArn
  /\ response.code_string = "NotFound"

\* C8: a Publish with an empty Subject is answered InvalidParameter and
\* causes no delivery attempt, no dead-letter call and no registry change,
\* whether or not the topic exists.
C8_EmptySubjectRejected ==
  [][(request'.Action = "Publish" /\ request'.Subject = "")
     => (/\ response'.status_code = 400
         /\ response'.code_string = "InvalidParameter"
         /\ deliveries' = <<>>
         /\ dead_letters' = <<>>
         /\ UNCHANGED <<SNS_SUBSCRIPTIONS, SUBSCRIPTION_STATUS, SNS_TAGS>>)]_vars

\* An empty subject rejected for a topic that has a subscriber with a transport
C8_Witness ==
  /\ request.Action = "Publish"
  /\ request.Subject = ""
  /\ request.PhoneNumber = None
  /\ request.TopicArn \in DOMAIN SNS_SUBSCRIPTIONS
  /\ \E i \in 1..Len(Subscribers) : HasTransport(Subscribers[i])
  /\ response.code_string = "InvalidParameter"

\* C9: a Publish with a PhoneNumber or a TargetArn, whose Subject is not
\* empty, is answered with success and a MessageId in every registry state.
C9_DirectPublishSucceeds ==
  (/\ request.Action = "Publish"
   /\ request.Subject # ""
   /\ (request.PhoneNumber # None \/ request.TargetArn # None))
    => (/\ response.status_code = 200
        /\ response.content = "MessageId"
        /\ deliveries = <<>>)

\* A push notification answered while the registry holds no topic
C9_Witness ==
  /\ request.Action = "Publish"
  /\ request.TargetArn # None
  /\ request.PhoneNumber = None
  /\ DOMAIN SNS_SUBSCRIPTIONS = {}
  /\ response.status_code = 200
  /\ response.content = "MessageId"

\* C10: a Subscribe that adds a subscription creates the status entry of its
\* ARN with the status Not Subscribed, the topic and a token; a
\* ConfirmSubscription with an entry's token and topic sets it to Subscribed.
C10_SubscribeThenConfirm ==
  [][/\ (/\ request'.Action = "Subscribe"
         /\ Len(SubscribersOf(SNS_SUBSCRIPTIONS', request'.TopicArn))
              > Len(SubscribersOf(SNS_SUBSCRIPTIONS, request'.TopicArn)))
        => LET subs == SNS_SUBSCRIPTIONS'[request'.TopicArn]
               arn == subs[Len(subs)]["SubscriptionArn"]
           IN  /\ arn \notin DOMAIN SUBSCRIPTION_STATUS
               /\ arn \in DOMAIN SUBSCRIPTION_STATUS'
               /\ SUBSCRIPTION_STATUS'[arn].Status = "Not Subscribed"
               /\ SUBSCRIPTION_STATUS'[arn].TopicArn = request'.TopicArn
               /\ \A other \in DOMAIN SUBSCRIPTION_STATUS :
                    SUBSCRIPTION_STATUS[other].Token # SUBSCRIPTION_STATUS'[arn].Token
     /\ request'.Action = "ConfirmSubscription"
        => \A arn \in DOMAIN SUBSCRIPTION_STATUS :
             (/\ SUBSCRIPTION_STATUS[arn].Token = request'.Token
              /\ SUBSCRIPTION_STATUS[arn].TopicArn = request'.TopicArn)
               => SUBSCRIPTION_STATUS'[arn].Status = "Subscribed"]_vars

\* A subscription for a queue, confirmed with its stored token
C10_Witness ==
  /\ request.Action = "ConfirmSubscription"
  /\ \E t \in DOMAIN SNS_SUBSCRIPTIONS : \E i \in 1..Len(SNS_SUBSCRIPTIONS[t]) :
       LET sub == SNS_SUBSCRIPTIONS[t][i]
           arn == sub["SubscriptionArn"]
       IN  /\ sub["Protocol"] = "sqs"
           /\ SUBSCRIPTION_STATUS[arn].Token = request.Token
           /\ SUBSCRIPTION_STATUS[arn].TopicArn = request.TopicArn
           /\ SUBSCRIPTION_STATUS[arn].Status = "Subscribed"

\* The (topic, token) pair of the request matches a status entry
Matches(status, req) ==
  \E arn \in DOMAIN status :
    status[arn].Token = req.Token /\ status[arn].TopicArn = req.TopicArn

\* C11: a ConfirmSubscription whose topic and token match no status entry
\* (a wrong token, or a stored token with another topic) changes no status
\* entry, no subscription and no tag, and is not answered with an error.
C11_UnmatchedConfirmIsNoOp ==
  [][(request'.Action = "ConfirmSubscription" /\ ~Matches(SUBSCRIPTION_STATUS, request'))
     => (/\ UNCHANGED <<SNS_SUBSCRIPTIONS, SUBSCRIPTION_STATUS, SNS_TAGS>>
         /\ response'.status_code = 200)]_vars

\* A ConfirmSubscription that presented a stored token with another topic
\* than the entry's, which is still Not Subscribed
C11_Witness ==
  /\ request.Action = "ConfirmSubscription"
  /\ ~Matches(SUBSCRIPTION_STATUS, request)
  /\ \E arn \in DOMAIN SUBSCRIPTION_STATUS :
       /\ SUBSCRIPTION_STATUS[arn].Token = request.Token
       /\ SUBSCRIPTION_STATUS[arn].TopicArn # request.TopicArn
       /\ SUBSCRIPTION_STATUS[arn].Status = "Not Subscribed"
  /\ response.status_code = 200

\* C12: Subscribed is terminal: an entry whose status is Subscribed is there
\* and Subscribed after every step of Subscribe, Unsubscribe, CreateTopic,
\* DeleteTopic, ConfirmSubscription and SetSubscriptionAttributes.
C12_SubscribedIsTerminal ==
  [][\A arn \in DOMAIN SUBSCRIPTION_STATUS :
       SUBSCRIPTION_STATUS[arn].Status = "Subscribed"
         => (/\ arn \in DOMAIN SUBSCRIPTION_STATUS'
             /\ SUBSCRIPTION_STATUS'[arn].Status = "Subscribed")]_vars

\* A confirmed subscription was unsubscribed and its endpoint subscribed to
\* the topic again: the old entry is Subscribed, the new one Not Subscribed
C12_Witness ==
  /\ request.Action = "Subscribe"
  /\ \E old, new \in DOMAIN SUBSCRIPTION_STATUS :
       /\ SUBSCRIPTION_STATUS[old].Status = "Subscribed"
       /\ SUBSCRIPTION_STATUS[old].TopicArn = request.TopicArn
       /\ Locations(SNS_SUBSCRIPTIONS, old) = {}
       /\ SUBSCRIPTION_STATUS[new].Status = "Not Subscribed"
       /\ Locations(SNS_SUBSCRIPTIONS, new) # {}
       /\ SNS_SUBSCRIPTIONS[request.TopicArn][1]["SubscriptionArn"] = new
       /\ SNS_SUBSCRIPTIONS[request.TopicArn][1]["Endpoint"] = request.Endpoint

\* The subscription of the entry is in no topic's list
Gone(arn) == Locations(SNS_SUBSCRIPTIONS, arn) = {}

\* C13: Unsubscribe and DeleteTopic leave every status entry as it is, and a
\* ConfirmSubscription with the token and topic of an entry whose
\* subscription is gone sets that entry to Subscribed and keeps its topic and
\* token.
C13_StatusOutlivesSubscription ==
  [][/\ request'.Action \in {"Unsubscribe", "DeleteTopic"}
          => UNCHANGED SUBSCRIPTION_STATUS
     /\ request'.Action = "ConfirmSubscription"
          => \A arn \in DOMAIN SUBSCRIPTION_STATUS :
               (/\ Gone(arn)
                /\ SUBSCRIPTION_STATUS[arn].Token = request'.Token
                /\ SUBSCRIPTION_STATUS[arn].TopicArn = request'.TopicArn)
                 => (/\ arn \in DOMAIN SUBSCRIPTION_STATUS'
                     /\ SUBSCRIPTION_STATUS'[arn] =
                          [SUBSCRIPTION_STATUS[arn] EXCEPT !.Status = "Subscribed"])]_vars

\* A ConfirmSubscription for an entry whose topic was deleted, and another
\* entry, still Not Subscribed, whose subscription was unsubscribed
C13_Witness ==
  /\ request.Action = "ConfirmSubscription"
  /\ request.TopicArn \notin DOMAIN SNS_SUBSCRIPTIONS
  /\ \E arn, other \in DOMAIN SUBSCRIPTION_STATUS :
       /\ Gone(arn)
       /\ SUBSCRIPTION_STATUS[arn].Token = request.Token
       /\ SUBSCRIPTION_STATUS[arn].TopicArn = request.TopicArn
       /\ SUBSCRIPTION_STATUS[arn].Status = "Subscribed"
       /\ Gone(other)
       /\ SUBSCRIPTION_STATUS[other].TopicArn \in DOMAIN SNS_SUBSCRIPTIONS
       /\ SUBSCRIPTION_STATUS[other].Status = "Not Subscribed"

\* The ARNs of the subscriptions in the list of topic t
ArnsIn(subscriptions, t) ==
  {subscriptions[t][i]["SubscriptionArn"] : i \in 1..Len(SubscribersOf(subscriptions, t))}

\* C14: DeleteTopic(T) removes T and its subscriptions in one step: T is not
\* in the registry, none of its subscriptions is found by its ARN, the other
\* topics keep their lists, and an absent T changes nothing. A subscription
\* ARN no topic holds makes Get and SetSubscriptionAttributes fail, and
\* CreateTopic of an absent topic gives it an empty list.
C14_DeleteTopicRemovesAll ==
  [][/\ request'.Action = "DeleteTopic"
          => LET T == request'.TopicArn
             IN  /\ T \notin DOMAIN SNS_SUBSCRIPTIONS'
                 /\ \A arn \in ArnsIn(SNS_SUBSCRIPTIONS, T) :
                      Locations(SNS_SUBSCRIPTIONS', arn) = {}
                 /\ DOMAIN SNS_SUBSCRIPTIONS' = DOMAIN SNS_SUBSCRIPTIONS \ {T}
                 /\ \A t \in DOMAIN SNS_SUBSCRIPTIONS' :
                      SNS_SUBSCRIPTIONS'[t] = SNS_SUBSCRIPTIONS[t]
                 /\ T \notin DOMAIN SNS_SUBSCRIPTIONS => UNCHANGED SNS_SUBSCRIPTIONS
     /\ (/\ request'.Action \in {"GetSubscriptionAttributes", "SetSubscriptionAttributes"}
         /\ Locations(SNS_SUBSCRIPTIONS, request'.SubscriptionArn) = {})
          => (response'.status_code >= 400 /\ UNCHANGED SNS_SUBSCRIPTIONS)
     /\ (request'.Action = "CreateTopic" /\ request'.TopicArn \notin DOMAIN SNS_SUBSCRIPTIONS)
          => SNS_SUBSCRIPTIONS'[request'.TopicArn] = <<>>]_vars

\* A DeleteTopic of a topic that had a subscription, while another topic
\* holds one
C14_Witness ==
  /\ request.Action = "DeleteTopic"
  /\ request.TopicArn \notin DOMAIN SNS_SUBSCRIPTIONS
  /\ \E arn \in DOMAIN SUBSCRIPTION_STATUS :
       SUBSCRIPTION_STATUS[arn].TopicArn = request.TopicArn /\ Gone(arn)
  /\ \E t \in DOMAIN SNS_SUBSCRIPTIONS : SNS_SUBSCRIPTIONS[t] # <<>>

\* C15: SetSubscriptionAttributes and GetSubscriptionAttributes for a
\* subscription ARN that no topic holds are answered with the error NotFound
\* and leave the registry unchanged.
C15_UnknownSubscriptionNotFound ==
  [][(/\ request'.Action \in {"GetSubscriptionAttributes", "SetSubscriptionAttributes"}
      /\ Locations(SNS_SUBSCRIPTIONS, request'.SubscriptionArn) = {})
     => (/\ response'.status_code >= 400
         /\ response'.code_string = "NotFound"
         /\ UNCHANGED <<SNS_SUBSCRIPTIONS, SUBSCRIPTION_STATUS, SNS_TAGS>>)]_vars

\* The Subscribe added a subscription to the list of its topic
Added ==
  /\ request'.Action = "Subscribe"
  /\ Len(SubscribersOf(SNS_SUBSCRIPTIONS', request'.TopicArn))
       > Len(SubscribersOf(SNS_SUBSCRIPTIONS, request'.TopicArn))

\* The subscription a Subscribe appended
NewSubscription ==
  LET subs == SNS_SUBSCRIPTIONS'[request'.TopicArn] IN subs[Len(subs)]

\* C16: a Subscribe that adds an http or https subscription causes exactly
\* one callback of type SubscriptionConfirmation to its endpoint, whatever
\* its attributes; one that adds a subscription of another protocol causes
\* no delivery attempt.
C16_ConfirmationSent ==
  [][Added =>
       IF request'.Protocol \in {"http", "https"}
       THEN /\ Len(deliveries') = 1
            /\ deliveries'[1].transport = "http"
            /\ deliveries'[1].msg_type = "SubscriptionConfirmation"
            /\ deliveries'[1].target = request'.Endpoint
       ELSE deliveries' = <<>>]_vars

\* C17: the confirmation message of a Subscribe goes to the subscription it
\* added and to no other subscriber of this or another topic.
C17_ConfirmationOnlyToNew ==
  [][request'.Action = "Subscribe" =>
       /\ \A k \in 1..Len(deliveries') :
            /\ Added
            /\ deliveries'[k].SubscriptionArn = NewSubscription["SubscriptionArn"]
            /\ deliveries'[k].target = request'.Endpoint
       /\ \A l \in 1..Len(dead_letters') :
            /\ Added
            /\ dead_letters'[l].SubscriptionArn = NewSubscription["SubscriptionArn"]]_vars

\* A callback subscribed to a topic that already held a queue: one call, to
\* the callback
C17_Witness ==
  /\ request.Action = "Subscribe"
  /\ request.Protocol = "http"
  /\ Len(Subscribers) = 2
  /\ Subscribers[1]["Protocol"] = "sqs"
  /\ Subscribers[2]["Endpoint"] = request.Endpoint
  /\ Len(deliveries) = 1
  /\ deliveries[1].SubscriptionArn = Subscribers[2]["SubscriptionArn"]

\* C18: a Subscribe of a new http or https endpoint whose confirmation
\* callback fails leaves the subscription in the topic's list and its status
\* entry in place with the status Not Subscribed.
C18_FailedConfirmationKeepsSubscription ==
  [][(/\ request'.Action = "Subscribe"
      /\ request'.Protocol \in {"http", "https"}
      /\ ~\E i \in 1..Len(SubscribersOf(SNS_SUBSCRIPTIONS, request'.TopicArn)) :
            SNS_SUBSCRIPTIONS[request'.TopicArn][i]["Endpoint"] = request'.Endpoint
      /\ \E k \in 1..Len(deliveries') : ~deliveries'[k].succeeded)
     => (/\ Added
         /\ NewSubscription["Endpoint"] = request'.Endpoint
         /\ NewSubscription["SubscriptionArn"] \in DOMAIN SUBSCRIPTION_STATUS'
         /\ SUBSCRIPTION_STATUS'[NewSubscription["SubscriptionArn"]].Status
              = "Not Subscribed"
         /\ SUBSCRIPTION_STATUS'[NewSubscription["SubscriptionArn"]].TopicArn
              = request'.TopicArn)]_vars

\* A callback subscription whose confirmation failed and went to the
\* dead-letter sink
C18_Witness ==
  /\ request.Action = "Subscribe"
  /\ request.Protocol = "http"
  /\ Len(deliveries) = 1
  /\ ~deliveries[1].succeeded
  /\ Len(dead_letters) = 1
  /\ \E i \in 1..Len(Subscribers) :
       /\ Subscribers[i]["SubscriptionArn"] = deliveries[1].SubscriptionArn
       /\ SUBSCRIPTION_STATUS[deliveries[1].SubscriptionArn].Status = "Not Subscribed"

\* The places of the submitted tags with this key that no earlier submitted
\* tag equals
Submitted(tags, key) ==
  {i \in 1..Len(tags) : tags[i].Key = key /\ \A j \in 1..(i - 1) : tags[j] # tags[i]}

First(S) == CHOOSE i \in S : \A j \in S : i <= j
Last(S) == CHOOSE i \in S : \A j \in S : j <= i

\* C19: TagResource merges by key. The submitted tags count once per
\* identical (Key, Value), at their first place. An entry of the topic keeps
\* its place and its key; its value is that of the last submitted tag with
\* its key, or unchanged when none has it. The keys the topic did not have
\* are appended, once each, in the order they were submitted.
C19_TagMerge ==
  [][request'.Action \in {"TagResource", "CreateTopic"} =>
       LET T == request'.TopicArn
           tags == request'.Tags
           old == IF T \in DOMAIN SNS_TAGS THEN SNS_TAGS[T] ELSE <<>>
           new == SNS_TAGS'[T]
           oldkeys == {old[p].Key : p \in 1..Len(old)}
           newkeys == {tags[i].Key : i \in 1..Len(tags)} \ oldkeys
       IN  /\ Len(new) = Len(old) + Cardinality(newkeys)
           /\ \A p \in 1..Len(old) :
                /\ new[p].Key = old[p].Key
                /\ new[p].Value = IF Submitted(tags, old[p].Key) = {} THEN old[p].Value
                                  ELSE tags[Last(Submitted(tags, old[p].Key))].Value
           /\ \A p \in (Len(old) + 1)..Len(new) :
                /\ new[p].Key \in newkeys
                /\ new[p].Value = tags[Last(Submitted(tags, new[p].Key))].Value
                /\ \A q \in (Len(old) + 1)..(p - 1) :
                     First(Submitted(tags, new[q].Key)) < First(Submitted(tags, new[p].Key))
           /\ \A t \in DOMAIN SNS_TAGS \ {T} :
                t \in DOMAIN SNS_TAGS' /\ SNS_TAGS'[t] = SNS_TAGS[t]]_vars

\* A request that repeats a tag after one with the same key and another
\* value, for a topic that had the key in second place: the value between
\* the two identical tags is the one kept, in second place
C19_Witness ==
  /\ request.Action = "TagResource"
  /\ request.Tags = <<[Key |-> "123", Value |-> "abc"], [Key |-> "123", Value |-> "def"],
                      [Key |-> "123", Value |-> "abc"]>>
  /\ SNS_TAGS[request.TopicArn] = <<[Key |-> "456", Value |-> "def"],
                                    [Key |-> "123", Value |-> "def"]>>

\* A condition matches a value: a bare value by equality, anything-but by
\* the value not being listed, prefix by a string starting with it (a number
\* starts with nothing), numeric by every pair holding for a number
ConditionMatches(value, condition) ==
  IF condition.isdict /\ "prefix" \in DOMAIN condition.dict /\ value.num THEN FALSE
  ELSE evaluate_condition(value, condition)

\* The values of an attribute: the elements of an array, or the one value
ValuesOf(attribute) ==
  IF attribute.Type = "String.Array"
  THEN {Str(<<attribute.Value.v[i]>>) : i \in 1..Len(attribute.Value.v)}
  ELSE {attribute.Value}

\* The policy of the subscriber is absent or empty, or the request carries
\* every name of the policy with a value one of the name's conditions matches
PolicyAdmits(subscriber, req_data) ==
  LET text == Get(subscriber, "FilterPolicy")
      policy == json_loads_policy(IF text = None THEN "{}" ELSE text)
      attributes == get_message_attributes(req_data)
  IN  \A c \in 1..Len(policy) :
        /\ policy[c].name \in DOMAIN attributes
        /\ \E j \in 1..Len(policy[c].conditions) :
             \E value \in ValuesOf(attributes[policy[c].name]) :
               ConditionMatches(value, policy[c].conditions[j])

\* C20: the filter policy evaluator accepts a message exactly when the
\* policy is absent or empty, or every attribute name of the policy is
\* carried by the message with a value that at least one condition of the
\* name's list matches. Seen from a publish whose sends all succeed: a
\* subscriber is delivered to exactly when its policy admits the message.
C20_FilterAcceptsExactly ==
  Fanout =>
    \A i \in 1..Len(Subscribers) :
      DeliveredTo(Subscribers[i]["SubscriptionArn"]) <=> PolicyAdmits(Subscribers[i], request)

\* The pair (operator, operand) holds of the number value
PairHolds(operator, value, operand) ==
  CASE operator = "=" -> value = operand
    [] operator = ">" -> value > operand
    [] operator = "<" -> value < operand
    [] operator = ">=" -> value >= operand
    [] operator = "<=" -> value <= operand

\* Every pair of the flat list conditions holds of value
EveryPairHolds(conditions, value) ==
  \A j \in 1..(Len(conditions) \div 2) :
    PairHolds(conditions[2 * j - 1], value, conditions[2 * j])

\* C21: a numeric condition, a flat list of (operator, operand) pairs with the
\* operators =, >, <, >= and <=, matches the value of a Number attribute
\* exactly when every pair holds of it in the ordering of the integers, and
\* never matches a value that is no number: the queue subscribed with the
\* condition gets the message in the first case and only then.
C21_NumericMatchesExactly ==
  Fanout =>
    \A i \in 1..Len(Subscribers) : \A c \in NumericConditions :
      LET sub == Subscribers[i]
          ma == request.MessageAttributes
      IN  (Get(sub, "FilterPolicy") = NumericText(c) /\ Len(ma) = 1) =>
            IF ma[1].DataType = "Number"
            THEN DeliveredTo(sub["SubscriptionArn"])
                   <=> EveryPairHolds(c, to_float(ma[1].StringValue))
            ELSE ~DeliveredTo(sub["SubscriptionArn"])

\* The number 100 was published to the queue subscribed with > 0 and <= 100,
\* and delivered
C21_Witness ==
  /\ Fanout /\ Len(Subscribers) = 1
  /\ Subscribers[1]["FilterPolicy"] = NumericText(<<">", 0, "<=", 100>>)
  /\ request.MessageAttributes = NumberAttr(<<"1", "0", "0">>)
  /\ Len(deliveries) = 1

\* The payload of the request, parsed
Payload == json_loads_message(request.Message).obj

\* The subscribers create_sns_message_body builds an envelope for
Enveloped(subscriber) ==
  subscriber["Protocol"] \in {"sqs", "http", "https"} /\ ~is_raw_message_delivery(subscriber)

\* C22: when the publish request declares a JSON message structure and the
\* subscriber is not raw, the delivered message is the payload entry keyed by
\* the subscriber's protocol if that key is present, otherwise the entry
\* keyed default; building the body fails only when the payload has neither
\* key. Stated of the first subscriber of the topic, which the loop always
\* reaches.
C22_ProtocolEntryElseDefault ==
  (/\ Fanout /\ request.MessageStructure = "json"
   /\ json_loads_message(request.Message).ok
   /\ Len(Subscribers) > 0 /\ Enveloped(Subscribers[1])) =>
    LET protocol == Subscribers[1]["Protocol"]
    IN  IF protocol \in DOMAIN Payload \/ "default" \in DOMAIN Payload
        THEN /\ Len(deliveries) > 0
             /\ deliveries[1].SubscriptionArn = Subscribers[1]["SubscriptionArn"]
             /\ deliveries[1].body.Message =
                  IF protocol \in DOMAIN Payload THEN Payload[protocol]
                  ELSE Payload["default"]
        ELSE deliveries = <<>>

\* C23: for a subscriber with raw message delivery enabled the body handed
\* to the transport is the published message text, with no envelope, for
\* every protocol and whether or not the request declares a JSON message
\* structure; building it never fails, so the first subscriber of the topic
\* gets its call.
C23_RawBodyIsMessageText ==
  Fanout =>
    /\ \A k \in 1..Len(deliveries) : \A i \in 1..Len(Subscribers) :
         (/\ Subscribers[i]["SubscriptionArn"] = deliveries[k].SubscriptionArn
          /\ is_raw_message_delivery(Subscribers[i])) =>
           IF deliveries[k].transport = "lambda"
           THEN deliveries[k].message = request.Message
           ELSE deliveries[k].body = [envelope |-> FALSE, text |-> request.Message]
    /\ (Len(Subscribers) > 0 /\ is_raw_message_delivery(Subscribers[1])) =>
         /\ Len(deliveries) > 0
         /\ deliveries[1].SubscriptionArn = Subscribers[1]["SubscriptionArn"]

\* A JSON payload was published with the JSON message structure to a topic
\* whose raw subscribers are a queue and a callback, and both got it
C23_Witness ==
  /\ Fanout /\ request.MessageStructure = "json" /\ request.Message = MsgJsonDefault
  /\ Len(Subscribers) = 2 /\ Len(deliveries) = 2
  /\ \A i \in 1..2 : /\ is_raw_message_delivery(Subscribers[i])
                      /\ Subscribers[i]["Protocol"] \in {"sqs", "http"}

\* The thread has handled a Subscribe request to its end
Subscribed(th) == threads[th].op = "Subscribe" /\ threads[th].pc = "done"

\* C24: two Subscribe calls for the same topic and endpoint that run as two
\* handler threads, whose check for an existing subscription and whose append
\* may interleave, leave the topic with exactly one subscription for that
\* endpoint.
C24_ConcurrentSubscribeOnce ==
  \A a \in Threads, b \in Threads :
    (/\ a # b /\ Subscribed(a) /\ Subscribed(b)
     /\ threads[a].topic_arn = threads[b].topic_arn
     /\ threads[a].endpoint = threads[b].endpoint
     /\ threads[a].topic_arn \in DOMAIN SNS_SUBSCRIPTIONS) =>
      LET subs == SNS_SUBSCRIPTIONS[threads[a].topic_arn]
      IN  Cardinality({i \in 1..Len(subs) : subs[i]["Endpoint"] = threads[a].endpoint}) = 1

\* C25: no completed Subscribe is lost to a concurrent Unsubscribe of another
\* ARN: when do_unsubscribe, which rebuilds and reassigns the list of every
\* topic, interleaves with the append of do_subscribe, the new subscription
\* is in the list of its topic once both calls have finished.
C25_SubscribeSurvivesUnsubscribe ==
  \A a \in Threads, b \in Threads :
    (/\ Subscribed(a)
     /\ threads[a].subscription_arn \in DOMAIN SUBSCRIPTION_STATUS
     /\ threads[b].op = "Unsubscribe" /\ threads[b].pc = "done"
     /\ threads[b].subscription_arn # threads[a].subscription_arn) =>
      \E i \in 1..Len(SubscribersOf(SNS_SUBSCRIPTIONS, threads[a].topic_arn)) :
        SNS_SUBSCRIPTIONS[threads[a].topic_arn][i]["SubscriptionArn"]
          = threads[a].subscription_arn

\* The number of subscriptions with the ARN among the first n of the list
Removed(list, arn, n) ==
  Cardinality({j \in 1..n : list[j]["SubscriptionArn"] = arn})

FirstWith(subscriptions, arn) ==
  {loc \in Locations(subscriptions, arn) :
     \A other \in Locations(subscriptions, arn) : other[1] = loc[1] => loc[2] <= other[2]}

ConfirmationToken(arn) == Confirmation(SUBSCRIPTION_STATUS[arn].TopicArn,
                                       short_uid(arn, "confirmation")).Token

\* The subscriptions for http and https of the topic, which were sent a
\* confirmation message: topic and token of the request are theirs
Confirming(req) ==
  {arn \in DOMAIN SUBSCRIPTION_STATUS :
     /\ SUBSCRIPTION_STATUS[arn].TopicArn = req.TopicArn
     /\ req.Token = ConfirmationToken(arn)
     /\ \E loc \in Locations(SNS_SUBSCRIPTIONS, arn) :
          SNS_SUBSCRIPTIONS[loc[1]][loc[2]]["Protocol"] \in {"http", "https"}}

\* C28: the handshake can be completed from the message alone: the token of
\* the SubscriptionConfirmation message sent to a new http or https
\* subscriber is the token of its status entry, so a ConfirmSubscription with
\* that token and the topic sets the subscription to Subscribed.
C28_MessageTokenConfirms ==
  [][request'.Action = "ConfirmSubscription" =>
       \A arn \in Confirming(request') :
         /\ SUBSCRIPTION_STATUS[arn].Token = request'.Token
         /\ SUBSCRIPTION_STATUS'[arn].Status = "Subscribed"]_vars

\* No two tags of the list have the same Key
UniqueKeys(tags) ==
  \A i \in 1..Len(tags), j \in 1..Len(tags) : tags[i].Key = tags[j].Key => i = j

\* The number of tags with a key of keys among the first n of the list
Untagged(tags, keys, n) == Cardinality({j \in 1..n : tags[j].Key \in keys})

\* C29: after any sequence of CreateTopic with tags, TagResource,
\* UntagResource and ListTagsForResource no tag list has two entries with the
\* same Key, and an UntagResource removes exactly the entries whose Key is in
\* its key list: every other entry stays, moved up by the number of removed
\* ones before it.
C29_UniqueKeysAndUntag ==
  [][/\ \A t \in DOMAIN SNS_TAGS' : UniqueKeys(SNS_TAGS'[t])
     /\ request'.Action = "UntagResource" =>
          LET old == get_tags(SNS_TAGS, request'.TopicArn)
              new == SNS_TAGS'[request'.TopicArn]
              keys == request'.TagKeys
          IN  /\ Len(new) = Len(old) - Untagged(old, keys, Len(old))
              /\ \A i \in 1..Len(old) :
                   old[i].Key \notin keys => new[i - Untagged(old, keys, i)] = old[i]
              /\ \A t \in DOMAIN SNS_TAGS \ {request'.TopicArn} :
                   SNS_TAGS'[t] = SNS_TAGS[t]]_vars

\* The key 123 was removed and the tag with the key 456 is left
C29_Witness ==
  /\ request.Action = "UntagResource"
  /\ request.TagKeys = {"123"}
  /\ Len(SNS_TAGS[request.TopicArn]) = 1
  /\ SNS_TAGS[request.TopicArn][1].Key = "456"

\* C30: which subscribers get a delivery attempt in a publish does not
\* depend on the confirmation status: whatever the status entries say, every
\* subscriber with a transport whose filter policy accepts the message gets
\* one, so an http subscriber that never confirmed gets the notifications.
C30_StatusDoesNotGateDelivery ==
  Fanout =>
    \A i \in 1..Len(Subscribers) :
      \A st \in {"Not Subscribed", "Subscribed"} :
        LET sub == Subscribers[i]
        IN  (/\ SUBSCRIPTION_STATUS[sub["SubscriptionArn"]].Status = st
             /\ HasTransport(sub) /\ Accepts(sub, request)) =>
              \E k \in 1..Len(deliveries) :
                deliveries[k].SubscriptionArn = sub["SubscriptionArn"]

\* A message was published to a confirmed queue and a callback that never
\* confirmed, and the callback got the notification
C30_Witness ==
  /\ Fanout /\ Len(Subscribers) = 2
  /\ \E i \in 1..2, j \in 1..2 :
       /\ Subscribers[i]["Protocol"] = "http"
       /\ SUBSCRIPTION_STATUS[Subscribers[i]["SubscriptionArn"]].Status = "Not Subscribed"
       /\ SUBSCRIPTION_STATUS[Subscribers[j]["SubscriptionArn"]].Status = "Subscribed"
       /\ \E k \in 1..Len(deliveries) :
            /\ deliveries[k].SubscriptionArn = Subscribers[i]["SubscriptionArn"]
            /\ deliveries[k].msg_type = "Notification"

\* C31: do_subscribe never creates a topic: called for a topic that is not
\* in the registry, never created or deleted since, it fails with the
\* KeyError of the append before it has changed anything: the topics, the
\* subscriber lists and the status entries are as they were, and no
\* confirmation message is sent or dead-lettered.
C31_SubscribeNeverCreatesTopic ==
  [][(/\ request'.Action = "Subscribe" /\ request'.Endpoint # None
      /\ request'.TopicArn \notin DOMAIN SNS_SUBSCRIPTIONS) =>
       /\ SNS_SUBSCRIPTIONS' = SNS_SUBSCRIPTIONS
       /\ SUBSCRIPTION_STATUS' = SUBSCRIPTION_STATUS
       /\ deliveries' = <<>> /\ dead_letters' = <<>>
       /\ response' = Raised("KeyError")]_vars

\* A Subscribe for http failed on a topic that had a subscription and was
\* deleted, while the other topic is there
C31_Witness ==
  /\ request.Action = "Subscribe" /\ request.Protocol = "http"
  /\ response = Raised("KeyError")
  /\ request.TopicArn \notin DOMAIN SNS_SUBSCRIPTIONS
  /\ DOMAIN SNS_SUBSCRIPTIONS # {}
  /\ \E arn \in DOMAIN SUBSCRIPTION_STATUS :
       SUBSCRIPTION_STATUS[arn].TopicArn = request.TopicArn

====
